---- MODULE Spec2Model ----
(***************************************************************************)
(* Control plane of the video generation service: one job driven from      *)
(* upload through the queue, the worker and the pipeline orchestrator,     *)
(* with cancel requests and stage cost tracking interleaved at every       *)
(* await of the Python code.                                               *)
(***************************************************************************)
EXTENDS Integers, Sequences, FiniteSets, TLC

\* ------------------------------------------------------------------ bounds
MaxCancels == 2        \* cancel requests issued against the job
MaxTrackCalls == 2     \* track_cost calls made by the stages of one run

\* Amounts the stage collaborators charge through track_cost: more than half
\* of the environment's budget limit, so that one charge fits and two do not.
AllCosts == {30, 1950}
CostChoices(env) == IF env = "development" THEN {30} ELSE {1950}
\* Numbers of clips the video generator may return.
ClipChoices == {2, 3}

MaxRequests == 6       \* check_rate_limit calls of the user
MaxTicks == 5          \* advances of the clock
MaxBrokerFailures == 1 \* failing broker operations
StartTime == 7200      \* first clock reading
TickChoices == {1, 3595}
MaxQueues == 11        \* stream requests, each with a queue of its own
MaxSseClock == 61      \* last reading of the hub's clock
MaxEnqueues == 3       \* enqueue_job calls
MaxUploads == 2        \* upload_audio calls that reach the row insert
UserIds == {"u1", "u2"}
AudioUrls == {"a1.mp3", "a2.mp3"}
Prompts == {"p1", "p2"}
MaxTrackers == 3       \* concurrent track_cost calls for the job
TrackCosts == {10, 25}
MaxStatusRequests == 2 \* concurrent get_job_status calls
MaxRowUpdates == 2     \* status writes to the rows
StatusJobs == {"j1", "j2", "j9"}
MaxRows == 3           \* rows of table jobs
MaxListCalls == 1      \* list_jobs calls
MaxValidations == 2    \* get_current_user calls
MaxTokenTicks == 2     \* advances of the cache's clock
TokenTickChoices == {1, 299, 300}
OtherClientChoices == {9, 10}
ProgressChoices == {10}
StageChoices == {"audio_parser"}

\* ------------------------------------------------------- program constants
S3EstimatedCost == 50
S5EstimatedCost == 100
MinClips == 3
StubClips == 1
Window == 3600
Capacity == 5
MAX_CONNECTIONS_PER_JOB == 10
HeartbeatTimeout == 60
JwtCacheSeconds == 300

JobId == "j1"
CancelIds == 1..MaxCancels
StageIds == 1..6

StageName(s) ==
    CASE s = 1 -> "audio_parser"
      [] s = 2 -> "scene_planner"
      [] s = 3 -> "reference_generator"
      [] s = 4 -> "prompt_generator"
      [] s = 5 -> "video_generator"
      [] s = 6 -> "composer"

\* Stages 3 and 4 report each other's percentage.
StageProgress_swapped(s) ==
    CASE s = 1 -> 10
      [] s = 2 -> 20
      [] s = 3 -> 40
      [] s = 4 -> 30
      [] s = 5 -> 85
      [] s = 6 -> 100

StageProgress(s) ==
    CASE s = 1 -> 10
      [] s = 2 -> 20
      [] s = 3 -> 30
      [] s = 4 -> 40
      [] s = 5 -> 85
      [] s = 6 -> 100

CancelMessage == "Job cancelled by user"

VARIABLES
    environment,    \* settings.environment
    job,            \* the row of table jobs
    job_stages,     \* rows of table job_stages
    queue,          \* broker list video_generation:queue (head first)
    payload_key,    \* broker key video_generation:job:{id} present
    cancel_marker,  \* broker key job_cancel:{id} present
    processing,     \* broker set video_generation:processing
    events,         \* messages published on channel job_events:{id}
    cancel,         \* per cancel request: position and the status it read
    wpc,            \* position of the worker
    stage,          \* stage execute_pipeline is in (0 = not running)
    step,           \* position of execute_pipeline inside the stage
    err,            \* exception being handled by execute_pipeline
    final_cost,     \* local total_cost read before the completion write
    track_calls,    \* track_cost calls made so far
    invoked,        \* stages whose collaborator call was entered
    raised_in,      \* stages whose collaborator raised an exception
    references,     \* the reference generator's output handed to later stages
    all_succeeded,  \* no collaborator raised, was missing or returned too few clips
    failed_writes,  \* who wrote status=failed to the job row, in order
    unannounced,    \* a failed write not yet followed by an error event
    cancelled_queued, \* cancel_job finished its queued branch before the pop
    marker_set_at   \* where execute_pipeline was when the marker was first set

\* The rate limiter of one user.
VARIABLES
    rate_limit_fail_closed, \* settings.rate_limit_fail_closed
    clock,          \* int(time.time())
    rate_limit_set, \* sorted set rate_limit:{user_id}: members with scores
    rate_limit_ttl, \* time at which the key expires (0 = no expiry set)
    rl_result,      \* how the last check_rate_limit call ended
    rl_calls,       \* check_rate_limit calls made so far
    rl_failed,      \* whether a broker operation failed in the last call
    rl_ticks,       \* clock advances so far
    broker_failures, \* broker operations that failed so far
    admissions      \* clock readings of the admitted calls, in order

rateVars == <<rate_limit_fail_closed, clock, rate_limit_set, rate_limit_ttl,
              rl_result, rl_calls, rl_failed, rl_ticks, broker_failures,
              admissions>>

\* The SSE hub of one API process.
VARIABLES
    connections,    \* dict job_id -> list of subscriber queues
    connection_timestamps, \* dict job_id -> dict queue -> last heartbeat
    sse_clock,      \* time.time()
    queues_created, \* asyncio.Queue objects created so far, numbered from 1
    sse_result      \* how the last add_connection call ended

sseVars == <<connections, connection_timestamps, sse_clock, queues_created,
             sse_result>>

\* The queue list with several jobs on it.
VARIABLES
    queue_list,     \* broker list video_generation:queue (head first), JSON texts
    enqueued,       \* job_data of the enqueue_job calls, in call order
    popped          \* job_data decoded by worker_loop, in pop order

fifoVars == <<queue_list, enqueued, popped>>

\* Concurrent track_cost calls for one job in one process.
VARIABLES
    locks,          \* CostTracker._locks: job_id -> task holding the lock (0 = free)
    job_costs,      \* rows of table job_costs, in insertion order
    stored_total,   \* jobs.total_cost of the job
    tracker,        \* per call: position, cost and the total it read
    contended       \* a call reached the lock while another call held it

costVars == <<locks, job_costs, stored_total, tracker, contended>>

\* Status reads of several users over several jobs.
VARIABLES
    rows,           \* table jobs: id -> row
    cache,          \* broker string keys of the cache: key -> JSON text
    request,        \* per get_job_status call: position, caller, job, response
    row_updates,    \* writes made to rows so far
    served,         \* job data returned, with the caller it was returned to
    cache_touched   \* callers that reached the cache, with the job asked for

statusVars == <<rows, cache, request, row_updates, served, cache_touched>>

\* Listing the jobs of a user.
VARIABLES
    jobs_table,     \* table jobs in the order the store returns its rows
    list_result,    \* arguments and response of the last list_jobs call
    list_calls      \* list_jobs calls made so far

listVars == <<jobs_table, list_result, list_calls>>

\* Token validation, one call at a time.
VARIABLES
    token_cache,    \* cache keys jwt_valid:{hash}: key -> JSON text and expiry
    token_clock,    \* the broker's clock, in seconds
    token_ticks,    \* advances of token_clock so far
    token_call,     \* the get_current_user call in progress
    validations     \* finished calls, in order

tokenVars == <<token_cache, token_clock, token_ticks, token_call, validations>>

\* The stream route's event generators on one job, in the API process.
VARIABLES
    stream_row,     \* the job's row as the store returns it
    stream_registry, \* connections[job_id]: the registered queues, in order
    stream_others,  \* registered queues of clients that are not modelled
    stream,         \* per generator: position, queue, pub/sub inbox, output
    updater         \* update_progress in progress: position and its data

streamVars == <<stream_row, stream_registry, stream_others, stream, updater>>

\* One worker process and the upload route that feeds its queue.
VARIABLES
    w_rows,         \* the jobs table: per job id its status and error_message
    w_response,     \* upload_audio's HTTP status per job id, 0 while running
    w_list,         \* the list video_generation:queue
    w_keys,         \* job ids that have a video_generation:job:{id} key
    w_processing,   \* the set video_generation:processing
    up,             \* upload_audio in progress: position and its job_data
    wk,             \* worker_loop: position, popped job_data, what it met
    w_popped,       \* job ids the worker has popped
    w_deleted       \* job ids whose payload key the worker has deleted

workerVars == <<w_rows, w_response, w_list, w_keys, w_processing, up, wk,
                w_popped, w_deleted>>

\* Tasks of one worker process inside process_job_with_limit.
VARIABLES
    sem_value,      \* semaphore._value
    sem_tasks       \* per task: its position and how its last call ended

semVars == <<sem_value, sem_tasks>>

\* The hub's mutex and a broadcast_event call among the other hub calls.
VARIABLES
    hub_connections, \* connections[job_id] of one job: queues, in order
    hub_lock,       \* connections_lock: "free" or the function holding it
    hub_broadcast,  \* broadcast_event: position and its connections_list
    hub_last_put    \* the queue of the last queue.put, 0 before the first

hubVars == <<hub_connections, hub_lock, hub_broadcast, hub_last_put>>

auxVars == <<rateVars, sseVars, fifoVars, costVars, statusVars, listVars,
             tokenVars, streamVars, workerVars, semVars, hubVars>>

jobVars == <<environment, job, job_stages, queue, payload_key, cancel_marker,
             processing, events, cancel, wpc, stage, step, err, final_cost,
             track_calls, invoked, raised_in, references, all_succeeded,
             failed_writes, unannounced, cancelled_queued, marker_set_at>>

brokerVars == <<queue, payload_key, cancel_marker, processing>>
pipeVars == <<stage, step, err, final_cost, track_calls, invoked,
              raised_in, references, all_succeeded>>
ghostVars == <<failed_writes, unannounced, cancelled_queued, marker_set_at>>

\* What the steps of one component leave alone.
exceptRate ==
    <<jobVars, sseVars, fifoVars, costVars,
      statusVars, listVars, tokenVars,
      streamVars,
      workerVars, semVars, hubVars>>
exceptSse ==
    <<jobVars, rateVars, fifoVars, costVars,
      statusVars, listVars, tokenVars,
      streamVars,
      workerVars, semVars, hubVars>>
exceptFifo ==
    <<jobVars, rateVars, sseVars, costVars,
      statusVars, listVars, tokenVars,
      streamVars,
      workerVars, semVars, hubVars>>
exceptCost ==
    <<jobVars, rateVars, sseVars, fifoVars,
      statusVars, listVars, tokenVars,
      streamVars,
      workerVars, semVars, hubVars>>
exceptStatus ==
    <<jobVars, rateVars, sseVars, fifoVars,
      costVars, listVars, tokenVars,
      streamVars,
      workerVars, semVars, hubVars>>
exceptList ==
    <<jobVars, rateVars, sseVars, fifoVars,
      costVars, statusVars, tokenVars,
      streamVars,
      workerVars, semVars, hubVars>>
exceptStream ==
    <<jobVars, rateVars, sseVars, fifoVars,
      costVars, statusVars, listVars, tokenVars,
      workerVars, semVars, hubVars>>
exceptWorker ==
    <<jobVars, rateVars, sseVars, fifoVars,
      costVars, statusVars, listVars, tokenVars,
      streamVars, semVars, hubVars>>
exceptSem ==
    <<jobVars, rateVars, sseVars, fifoVars,
      costVars, statusVars, listVars, tokenVars,
      streamVars, workerVars, hubVars>>
exceptHub ==
    <<jobVars, rateVars, sseVars, fifoVars,
      costVars, statusVars, listVars, tokenVars,
      streamVars, workerVars, semVars>>
exceptToken ==
    <<jobVars, rateVars, sseVars, fifoVars,
      costVars, statusVars, listVars,
      streamVars,
      workerVars, semVars, hubVars>>

\* ------------------------------------------------------------ pure helpers
get_budget_limit(env) ==
    IF env \in {"production", "staging"} THEN 2000 ELSE 50

\* A pre-check that lets every stage proceed.
check_budget_always(current_total, new_cost, limit) ==
    TRUE

check_budget(current_total, new_cost, limit) ==
    current_total + new_cost <= limit

exceeds_limit(current_total, limit) ==
    current_total > limit

\* A check_cancellation that never sees the marker.
check_cancellation_blind ==
    FALSE

check_cancellation ==
    cancel_marker

NoError ==
    [message |-> "", code |-> "", retryable |-> FALSE, after |-> "none",
     raised |-> "none", clause |-> "none"]

\* isinstance over the classes of shared/errors.py: BudgetExceededError and
\* RetryableError derive from PipelineError, which derives from Exception.
IsInstance(kind, cls) ==
    \/ cls = "Exception"
    \/ kind = cls
    \/ cls = "PipelineError" /\ kind \in {"BudgetExceededError", "RetryableError"}

\* The except clause of process_job that takes an exception leaving
\* execute_pipeline: the clauses are tried in the order they are written.
process_job_except(kind) ==
    IF IsInstance(kind, "BudgetExceededError")
       \/ IsInstance(kind, "PipelineError") THEN "absorbed"
    ELSE IF IsInstance(kind, "RetryableError") THEN "reraised"
    ELSE "unexpected"

\* No stage is degradable.
degradable_none(s) ==
    FALSE

\* Only the reference generator's call sits in a try block that absorbs
\* every exception.
degradable(s) ==
    s = 3

\* handle_pipeline_error's classification of the exception it is given.
error_code(kind) ==
    IF kind = "BudgetExceededError" THEN "BUDGET_EXCEEDED" ELSE "None"

error_retryable(kind) ==
    kind = "RetryableError"

\* after: "return" when execute_pipeline returns once the error is handled,
\* "raise" when it re-raises the exception it handled, "raise_other" when it
\* handled a PipelineError wrapping a foreign exception and re-raises that one.
MakeError(kind, message, after) ==
    [message |-> message, code |-> error_code(kind),
     retryable |-> error_retryable(kind), after |-> after,
     raised |-> IF after = "return" THEN "none"
                ELSE IF after = "raise_other" THEN "Exception" ELSE kind,
     clause |-> "none"]

Publish(ev) ==
    /\ events' = Append(events, ev)
    /\ unannounced' = (unannounced /\ ev.event_type # "error")

StageUpdate(s, st) ==
    [event_type |-> "stage_update", stage |-> StageName(s), status |-> st]

ProgressEvent(p, s) ==
    [event_type |-> "progress", progress |-> p, stage |-> StageName(s)]

ErrorEvent(e) ==
    [event_type |-> "error", error |-> e.message, code |-> e.code,
     retryable |-> e.retryable]

CompletedEvent(url, cost) ==
    [event_type |-> "completed", video_url |-> url, total_cost |-> cost]

\* A failed write that sets the status alone.
WriteFailed_status_only(by, message) ==
    /\ job' = [job EXCEPT !.status = "failed"]
    /\ failed_writes' = Append(failed_writes, by)
    /\ unannounced' = TRUE

WriteFailed(by, message) ==
    /\ job' = [job EXCEPT !.status = "failed", !.error_message = message]
    /\ failed_writes' = Append(failed_writes, by)
    /\ unannounced' = TRUE

\* ------------------------------------------------------------------- Init
JobInit ==
    /\ environment \in {"development", "production"}
    /\ job = [status |-> "absent", progress |-> 0, current_stage |-> "",
              error_message |-> "", video_url |-> "", total_cost |-> 0]
    /\ job_stages = {}
    /\ queue = <<>>
    /\ payload_key = FALSE
    /\ cancel_marker = FALSE
    /\ processing = {}
    /\ events = <<>>
    /\ cancel = [c \in CancelIds |-> [pc |-> "idle", job_status |-> ""]]
    /\ wpc = "idle"
    /\ stage = 0
    /\ step = "none"
    /\ err = NoError
    /\ final_cost = 0
    /\ track_calls = 0
    /\ invoked = {}
    /\ raised_in = {}
    /\ references = "None"
    /\ all_succeeded = TRUE
    /\ failed_writes = <<>>
    /\ unannounced = FALSE
    /\ cancelled_queued = FALSE
    /\ marker_set_at = [stage |-> -1, step |-> "unset"]

\* ------------------------------------------------------------ upload_audio
\* The row insert with status queued, then enqueue_job: lpush on the list
\* and the payload key.
upload_audio ==
    /\ job.status = "absent"
    /\ job' = [job EXCEPT !.status = "queued", !.progress = 0]
    /\ queue' = <<JobId>> \o queue
    /\ payload_key' = TRUE
    /\ UNCHANGED <<auxVars, environment, job_stages, cancel_marker, processing, events,
                   cancel, wpc, pipeVars, ghostVars>>

\* -------------------------------------------------------------- cancel_job
\* verify_job_ownership reads the row; a status other than queued or
\* processing is answered with HTTP 400.  Requests are interchangeable, so
\* request c+1 is issued only after request c.
\* A status test that lets every job be cancelled.
cancellable_always(job_status) ==
    TRUE

\* job_status not in ["queued", "processing"] raises HTTP 400.
cancellable(job_status) ==
    job_status \in {"queued", "processing"}

cancel_job_verify(c) ==
    /\ cancel[c].pc = "idle"
    /\ c > 1 => cancel[c - 1].pc # "idle"
    /\ job.status # "absent"
    /\ cancel' = [cancel EXCEPT ![c] =
           IF cancellable(job.status)
           THEN [pc |-> "mark", job_status |-> job.status]
           ELSE [pc |-> "rejected", job_status |-> job.status]]
    /\ UNCHANGED <<auxVars, environment, job, job_stages, brokerVars, events, wpc,
                   pipeVars, ghostVars>>

\* remove_job deletes the payload key only; the list entry stays.
remove_job ==
    /\ payload_key' = FALSE
    /\ UNCHANGED <<queue, cancel_marker, processing>>

set_cancel_marker ==
    /\ cancel_marker' = TRUE
    /\ UNCHANGED <<queue, payload_key, processing>>

cancel_job_mark(c) ==
    /\ cancel[c].pc = "mark"
    /\ IF cancel[c].job_status = "queued"
       THEN remove_job /\ UNCHANGED marker_set_at
       ELSE /\ set_cancel_marker
            /\ marker_set_at' = IF cancel_marker THEN marker_set_at
                                ELSE [stage |-> stage, step |-> step]
    /\ cancel' = [cancel EXCEPT ![c].pc = "write"]
    /\ UNCHANGED <<auxVars, environment, job, job_stages, events, wpc, pipeVars,
                   failed_writes, unannounced, cancelled_queued>>

\* The row update to failed; the status cache entry is deleted after it.
cancel_job_write(c) ==
    /\ cancel[c].pc = "write"
    /\ WriteFailed("cancel_job", CancelMessage)
    /\ cancelled_queued' =
           (cancelled_queued \/ (cancel[c].job_status = "queued" /\ queue # <<>>))
    /\ cancel' = [cancel EXCEPT ![c].pc = "done"]
    /\ UNCHANGED <<auxVars, environment, job_stages, brokerVars, events, wpc, pipeVars,
                   marker_set_at>>

\* ------------------------------------------------------------- worker_loop
\* lpush adds at the head of the list, brpop takes from its tail.
worker_brpop ==
    /\ wpc = "idle"
    /\ queue # <<>>
    /\ queue' = SubSeq(queue, 1, Len(queue) - 1)
    /\ wpc' = "sadd"
    /\ UNCHANGED <<auxVars, environment, job, job_stages, payload_key, cancel_marker,
                   processing, events, cancel, pipeVars, ghostVars>>

worker_sadd ==
    /\ wpc = "sadd"
    /\ processing' = processing \cup {JobId}
    /\ wpc' = "check_cancel"
    /\ UNCHANGED <<auxVars, environment, job, job_stages, queue, payload_key,
                   cancel_marker, events, cancel, pipeVars, ghostVars>>

\* process_job: the dequeue-time read of the cancellation marker.  When the
\* marker is present the row is marked failed and the pipeline is skipped;
\* otherwise execute_pipeline is entered.
process_job_check ==
    /\ wpc = "check_cancel"
    /\ IF cancel_marker
       THEN /\ WriteFailed("process_job", CancelMessage)
            /\ wpc' = "srem"
            /\ UNCHANGED <<stage, step>>
       ELSE /\ wpc' = "pipeline"
            /\ stage' = 1
            /\ step' = "set_processing"
            /\ UNCHANGED <<job, failed_writes, unannounced>>
    /\ UNCHANGED <<auxVars, environment, job_stages, brokerVars, events, cancel,
                   err, final_cost, track_calls, invoked, raised_in, references, all_succeeded,
                   cancelled_queued, marker_set_at>>

\* process_job's "except Exception" branch.
process_job_unexpected ==
    /\ wpc = "unexpected"
    /\ WriteFailed("process_job", "Unexpected error")
    /\ wpc' = "srem"
    /\ UNCHANGED <<auxVars, environment, job_stages, brokerVars, events, cancel,
                   pipeVars, cancelled_queued, marker_set_at>>

worker_srem ==
    /\ wpc = "srem"
    /\ processing' = processing \ {JobId}
    /\ wpc' = "delete"
    /\ UNCHANGED <<auxVars, environment, job, job_stages, queue, payload_key,
                   cancel_marker, events, cancel, pipeVars, ghostVars>>

worker_delete ==
    /\ wpc = "delete"
    /\ payload_key' = FALSE
    /\ wpc' = "idle"
    /\ UNCHANGED <<auxVars, environment, job, job_stages, queue, cancel_marker,
                   processing, events, cancel, pipeVars, ghostVars>>

\* -------------------------------------------------------- execute_pipeline
ExcKinds == {"PipelineError", "RetryableError", "Exception"}
Outcomes == {"ok", "ImportError"} \cup ExcKinds

BudgetStages == {3, 5}
EstimatedCost(s) == IF s = 3 THEN S3EstimatedCost ELSE S5EstimatedCost

BudgetMessage(s) ==
    IF s = 3 THEN "Would exceed budget limit before reference generation"
    ELSE "Would exceed budget limit before video generation"

InsufficientClips ==
    MakeError("PipelineError",
              "Insufficient clips generated (minimum 3 required)", "raise")

\* Position reached when stage s has produced its output.
AfterOutput(s) == IF s = 6 THEN "read_cost" ELSE "progress_db"

Raise(e) ==
    /\ err' = e
    /\ step' = "hpe_write"

exec_set_processing ==
    /\ wpc = "pipeline" /\ step = "set_processing"
    /\ job' = [job EXCEPT !.status = "processing"]
    /\ step' = "started"
    /\ UNCHANGED <<auxVars, environment, job_stages, brokerVars, events, cancel, wpc,
                   stage, err, final_cost, track_calls, invoked, raised_in, references,
                   all_succeeded, ghostVars>>

exec_publish_started ==
    /\ wpc = "pipeline" /\ step = "started"
    /\ Publish(StageUpdate(stage, "started"))
    /\ step' = "check"
    /\ UNCHANGED <<auxVars, environment, job, job_stages, brokerVars, cancel, wpc,
                   stage, err, final_cost, track_calls, invoked, raised_in, references,
                   all_succeeded, failed_writes, cancelled_queued,
                   marker_set_at>>

exec_check_cancellation ==
    /\ wpc = "pipeline" /\ step = "check"
    /\ IF check_cancellation
       THEN Raise(MakeError("PipelineError", CancelMessage, "return"))
       ELSE /\ step' = IF stage \in BudgetStages THEN "check_budget"
                       ELSE "invoke"
            /\ UNCHANGED err
    /\ UNCHANGED <<auxVars, environment, job, job_stages, brokerVars, events, cancel,
                   wpc, stage, final_cost, track_calls, invoked, raised_in, references,
                   all_succeeded, ghostVars>>

exec_check_budget ==
    /\ wpc = "pipeline" /\ step = "check_budget"
    /\ IF check_budget(job.total_cost, EstimatedCost(stage),
                       get_budget_limit(environment))
       THEN step' = "invoke" /\ UNCHANGED err
       ELSE Raise(MakeError("BudgetExceededError", BudgetMessage(stage),
                            "raise"))
    /\ UNCHANGED <<auxVars, environment, job, job_stages, brokerVars, events, cancel,
                   wpc, stage, final_cost, track_calls, invoked, raised_in, references,
                   all_succeeded, ghostVars>>

\* The try block that imports the stage module and calls its process().
exec_invoke ==
    /\ wpc = "pipeline" /\ step = "invoke"
    /\ invoked' = invoked \cup {stage}
    /\ step' = "running"
    /\ UNCHANGED <<auxVars, environment, job, job_stages, brokerVars, events, cancel,
                   wpc, stage, err, final_cost, track_calls, raised_in,
                   references, all_succeeded, ghostVars>>

\* CostTracker.track_cost, called by the running collaborator.
track_cost(cost) ==
    /\ wpc = "pipeline" /\ step = "running"
    /\ track_calls < MaxTrackCalls
    /\ cost \in CostChoices(environment)
    /\ cost >= 0
    /\ job' = [job EXCEPT !.total_cost = job.total_cost + cost]
    /\ track_calls' = track_calls + 1
    /\ UNCHANGED <<auxVars, environment, job_stages, brokerVars, events, cancel, wpc,
                   stage, step, err, final_cost, invoked, raised_in, references, all_succeeded,
                   ghostVars>>

\* The job_stages row inserted when the reference generator raises.  Stage 4
\* reads it back into fallback_mode, a local that nothing else uses.
FallbackRecord ==
    [stage_name |-> "reference_generator", status |-> "failed",
     fallback_mode |-> TRUE]

\* How the try block of a stage ends: its output ("ok"), the stub output
\* after ImportError, or an exception.  Only the reference generator's
\* exceptions are absorbed; execute_pipeline's except clauses take the others.
exec_collaborator_returns(outcome, clips) ==
    /\ wpc = "pipeline" /\ step = "running"
    /\ (stage # 5 \/ outcome # "ok") => clips = MinClips
    /\ all_succeeded' = (all_succeeded /\ outcome = "ok" /\ clips >= MinClips)
    /\ raised_in' = IF outcome \in ExcKinds THEN raised_in \cup {stage}
                    ELSE raised_in
    /\ references' = IF stage = 3
                     THEN (IF outcome = "ok" THEN "References" ELSE "None")
                     ELSE references
    /\ IF outcome = "ok"
       THEN IF stage = 5 /\ clips < MinClips
            THEN Raise(InsufficientClips) /\ UNCHANGED job_stages
            ELSE step' = AfterOutput(stage) /\ UNCHANGED <<err, job_stages>>
       ELSE IF outcome = "ImportError"
       THEN IF stage = 5 /\ StubClips < MinClips
            THEN Raise(InsufficientClips) /\ UNCHANGED job_stages
            ELSE step' = AfterOutput(stage) /\ UNCHANGED <<err, job_stages>>
       ELSE IF degradable(stage)
       THEN /\ job_stages' = job_stages \cup {FallbackRecord}
            /\ step' = "progress_db"
            /\ UNCHANGED err
       ELSE /\ UNCHANGED job_stages
            /\ IF IsInstance(outcome, "PipelineError")
               THEN Raise(MakeError(outcome, "stage failed", "raise"))
               ELSE Raise(MakeError("PipelineError",
                          "Pipeline execution failed", "raise_other"))
    /\ UNCHANGED <<auxVars, environment, job, brokerVars, events, cancel, wpc, stage,
                   final_cost, track_calls, invoked, ghostVars>>

\* update_progress: the row update, then the progress event.
update_progress_db ==
    /\ wpc = "pipeline" /\ step = "progress_db"
    /\ job' = [job EXCEPT !.progress = StageProgress(stage),
                          !.current_stage = StageName(stage)]
    /\ step' = "progress_pub"
    /\ UNCHANGED <<auxVars, environment, job_stages, brokerVars, events, cancel, wpc,
                   stage, err, final_cost, track_calls, invoked, raised_in, references,
                   all_succeeded, ghostVars>>

update_progress_publish ==
    /\ wpc = "pipeline" /\ step = "progress_pub"
    /\ Publish(ProgressEvent(StageProgress(stage), stage))
    /\ step' = IF stage = 6 THEN "publish_completed" ELSE "completed"
    /\ UNCHANGED <<auxVars, environment, job, job_stages, brokerVars, cancel, wpc,
                   stage, err, final_cost, track_calls, invoked, raised_in, references,
                   all_succeeded, failed_writes, cancelled_queued,
                   marker_set_at>>

exec_publish_stage_completed ==
    /\ wpc = "pipeline" /\ step = "completed"
    /\ Publish(StageUpdate(stage, "completed"))
    /\ IF stage \in BudgetStages
       THEN step' = "enforce" /\ UNCHANGED stage
       ELSE step' = "started" /\ stage' = stage + 1
    /\ UNCHANGED <<auxVars, environment, job, job_stages, brokerVars, cancel, wpc,
                   err, final_cost, track_calls, invoked, raised_in, references, all_succeeded,
                   failed_writes, cancelled_queued, marker_set_at>>

\* enforce_budget: on BudgetExceededError it publishes an error event and
\* re-raises into execute_pipeline's except clause.
enforce_budget ==
    /\ wpc = "pipeline" /\ step = "enforce"
    /\ IF exceeds_limit(job.total_cost, get_budget_limit(environment))
       THEN LET e == MakeError("BudgetExceededError",
                               "Budget limit exceeded", "raise")
            IN  /\ Publish(ErrorEvent(e))
                /\ Raise(e)
                /\ UNCHANGED stage
       ELSE /\ step' = "started"
            /\ stage' = stage + 1
            /\ UNCHANGED <<events, err, unannounced>>
    /\ UNCHANGED <<auxVars, environment, job, job_stages, brokerVars, cancel, wpc,
                   final_cost, track_calls, invoked, raised_in, references, all_succeeded,
                   failed_writes, cancelled_queued, marker_set_at>>

exec_read_cost ==
    /\ wpc = "pipeline" /\ step = "read_cost"
    /\ final_cost' = job.total_cost
    /\ step' = "complete_write"
    /\ UNCHANGED <<auxVars, environment, job, job_stages, brokerVars, events, cancel,
                   wpc, stage, err, track_calls, invoked, raised_in, references, all_succeeded,
                   ghostVars>>

VideoUrl == "final_video_url"

exec_complete_write ==
    /\ wpc = "pipeline" /\ step = "complete_write"
    /\ job' = [job EXCEPT !.status = "completed", !.progress = 100,
                          !.current_stage = "composer",
                          !.video_url = VideoUrl,
                          !.total_cost = final_cost]
    /\ step' = "progress_db"
    /\ UNCHANGED <<auxVars, environment, job_stages, brokerVars, events, cancel, wpc,
                   stage, err, final_cost, track_calls, invoked, raised_in, references,
                   all_succeeded, ghostVars>>

exec_publish_completed ==
    /\ wpc = "pipeline" /\ step = "publish_completed"
    /\ Publish(CompletedEvent(VideoUrl, final_cost))
    /\ step' = "done"
    /\ wpc' = "srem"
    /\ UNCHANGED <<auxVars, environment, job, job_stages, brokerVars, cancel, stage,
                   err, final_cost, track_calls, invoked, raised_in, references, all_succeeded,
                   failed_writes, cancelled_queued, marker_set_at>>

\* handle_pipeline_error: the row update, then the error event.
handle_pipeline_error_write ==
    /\ wpc = "pipeline" /\ step = "hpe_write"
    /\ WriteFailed("handle_pipeline_error", err.message)
    /\ step' = "hpe_pub"
    /\ UNCHANGED <<auxVars, environment, job_stages, brokerVars, events, cancel, wpc,
                   stage, err, final_cost, track_calls, invoked, raised_in, references,
                   all_succeeded, cancelled_queued, marker_set_at>>

handle_pipeline_error_publish ==
    /\ wpc = "pipeline" /\ step = "hpe_pub"
    /\ Publish(ErrorEvent(err))
    /\ step' = "done"
    /\ LET clause == IF err.after = "return" THEN "returned"
                     ELSE process_job_except(err.raised)
       IN  /\ err' = [err EXCEPT !.clause = clause]
           /\ wpc' = IF clause = "unexpected" THEN "unexpected" ELSE "srem"
    /\ UNCHANGED <<auxVars, environment, job, job_stages, brokerVars, cancel, stage,
                   final_cost, track_calls, invoked, raised_in, references, all_succeeded,
                   failed_writes, cancelled_queued, marker_set_at>>

\* ------------------------------------------------------------------- Next
Next ==
    \/ upload_audio
    \/ \E c \in CancelIds : cancel_job_verify(c)
    \/ \E c \in CancelIds : cancel_job_mark(c)
    \/ \E c \in CancelIds : cancel_job_write(c)
    \/ worker_brpop
    \/ worker_sadd
    \/ process_job_check
    \/ process_job_unexpected
    \/ worker_srem
    \/ worker_delete
    \/ exec_set_processing
    \/ exec_publish_started
    \/ exec_check_cancellation
    \/ exec_check_budget
    \/ exec_invoke
    \/ \E cost \in AllCosts : track_cost(cost)
    \/ \E outcome \in Outcomes, clips \in ClipChoices :
           exec_collaborator_returns(outcome, clips)
    \/ update_progress_db
    \/ update_progress_publish
    \/ exec_publish_stage_completed
    \/ enforce_budget
    \/ exec_read_cost
    \/ exec_complete_write
    \/ exec_publish_completed
    \/ handle_pipeline_error_write
    \/ handle_pipeline_error_publish

\* ------------------------------------------------------------ rate limiter
\* services/rate_limiter.py; the calls of one user, one at a time.
NoResult == [outcome |-> "none", retry_after |-> 0, code |-> ""]

Admitted == [outcome |-> "admitted", retry_after |-> 0, code |-> ""]

RateLimitError(retry_after, code) ==
    [outcome |-> "rejected", retry_after |-> retry_after, code |-> code]

RateInit ==
    /\ rate_limit_fail_closed = FALSE
    /\ clock = StartTime
    /\ rate_limit_set = {}
    /\ rate_limit_ttl = 0
    /\ rl_result = NoResult
    /\ rl_calls = 0
    /\ rl_failed = FALSE
    /\ rl_ticks = 0
    /\ broker_failures = 0
    /\ admissions = <<>>

\* str(now): the decimal text of the integer.
str(n) == ToString(n)

\* A trim that removes nothing.
zremrangebyscore_none(z, min, max) ==
    z

\* Sorted-set commands: a member occurs once, ZADD of a member already
\* present replaces its score.
zremrangebyscore(z, min, max) ==
    {e \in z : ~(min <= e.score /\ e.score <= max)}

zcard(z) == Cardinality(z)

zadd(z, member, score) ==
    {e \in z : e.member # member} \cup {[member |-> member, score |-> score]}

\* zrange(key, 0, 0, withscores=True): the entry of lowest score.
zrange_first(z) ==
    IF z = {} THEN <<>>
    ELSE <<CHOOSE e \in z : \A f \in z : e.score <= f.score>>

BrokerOps == {"zremrangebyscore", "zcard", "zrange", "zadd", "expire"}

\* What a failing broker command raises inside the try block.
BrokerException == [outcome |-> "raised", retry_after |-> 0, code |-> ""]

\* An except clause that applies the failure policy to every exception.
check_rate_limit_except_policy_only(exc, fail_closed) ==
    IF fail_closed
    THEN RateLimitError(60, "RATE_LIMIT_SERVICE_UNAVAILABLE")
    ELSE Admitted

\* except RateLimitError: raise; except Exception: the failure policy.
check_rate_limit_except(exc, fail_closed) ==
    IF exc.outcome = "rejected"
    THEN exc
    ELSE IF fail_closed
    THEN RateLimitError(60, "RATE_LIMIT_SERVICE_UNAVAILABLE")
    ELSE Admitted

\* The broker deletes the key at its expiry time.
clock_tick(d) ==
    /\ rl_ticks < MaxTicks
    /\ rl_ticks' = rl_ticks + 1
    /\ clock' = clock + d
    /\ IF rate_limit_ttl # 0 /\ clock' >= rate_limit_ttl
       THEN rate_limit_set' = {} /\ rate_limit_ttl' = 0
       ELSE UNCHANGED <<rate_limit_set, rate_limit_ttl>>
    /\ UNCHANGED <<exceptRate, rate_limit_fail_closed, rl_result, rl_calls,
                   rl_failed, broker_failures, admissions>>

\* settings.rate_limit_fail_closed is read from the environment at start.
configure_fail_closed ==
    /\ rl_calls = 0 /\ rl_ticks = 0 /\ ~rate_limit_fail_closed
    /\ rate_limit_fail_closed' = TRUE
    /\ UNCHANGED <<exceptRate, clock, rate_limit_set, rate_limit_ttl, rl_result,
                   rl_calls, rl_failed, rl_ticks, broker_failures, admissions>>

\* One call; fail_at names the broker operation that raises ("none": all
\* succeed).  The except clause applies the failure policy.
check_rate_limit(fail_at) ==
    /\ rl_calls < MaxRequests
    /\ fail_at # "none" => broker_failures < MaxBrokerFailures
    /\ LET now == clock
           one_hour_ago == now - Window
           trimmed == zremrangebyscore(rate_limit_set, 0, one_hour_ago)
           count == zcard(trimmed)
           oldest_entries == zrange_first(trimmed)
           retry_after == IF oldest_entries # <<>>
                          THEN Window - (now - oldest_entries[1].score)
                          ELSE Window
           added == zadd(trimmed, str(now), now)
           on_failure == check_rate_limit_except(BrokerException,
                                                 rate_limit_fail_closed)
           \* a sorted set left empty is deleted together with its expiry
           ttl_of(z) == IF z = {} THEN 0 ELSE rate_limit_ttl
           end(z, ttl, result) ==
               /\ rate_limit_set' = z
               /\ rate_limit_ttl' = ttl
               /\ rl_result' = result
               /\ admissions' = IF result.outcome = "admitted"
                                THEN Append(admissions, now)
                                ELSE admissions
       IN  IF fail_at = "zremrangebyscore"
           THEN end(rate_limit_set, rate_limit_ttl, on_failure)
           ELSE IF fail_at = "zcard"
           THEN end(trimmed, ttl_of(trimmed), on_failure)
           ELSE IF count >= Capacity
           THEN /\ fail_at \in {"none", "zrange"}
                /\ IF fail_at = "zrange"
                   THEN end(trimmed, ttl_of(trimmed), on_failure)
                   ELSE end(trimmed, ttl_of(trimmed),
                            check_rate_limit_except(
                                RateLimitError(retry_after,
                                               "RATE_LIMIT_EXCEEDED"),
                                rate_limit_fail_closed))
           ELSE /\ fail_at \in {"none", "zadd", "expire"}
                /\ IF fail_at = "zadd"
                   THEN end(trimmed, ttl_of(trimmed), on_failure)
                   ELSE IF fail_at = "expire"
                   THEN end(added, ttl_of(trimmed), on_failure)
                   ELSE end(added, now + Window, Admitted)
    /\ rl_calls' = rl_calls + 1
    /\ rl_failed' = (fail_at # "none")
    /\ broker_failures' = broker_failures + (IF fail_at = "none" THEN 0 ELSE 1)
    /\ UNCHANGED <<exceptRate, rate_limit_fail_closed, clock, rl_ticks>>

NextRate ==
    \/ configure_fail_closed
    \/ \E d \in TickChoices : clock_tick(d)
    \/ \E fail_at \in BrokerOps \cup {"none"} : check_rate_limit(fail_at)

\* ---------------------------------------------------------------- SSE hub
\* services/sse_manager.py.  Every operation runs under connections_lock,
\* so each is one step.
SseJobs == {JobId}

\* A dict without key k / with key k set to v.
Drop(d, k) == [x \in DOMAIN d \ {k} |-> d[x]]

Put(d, k, v) == [x \in DOMAIN d \cup {k} |-> IF x = k THEN v ELSE d[x]]

\* list.remove(q): the first occurrence goes; the caller checks membership.
InList(l, q) == \E i \in 1..Len(l) : l[i] = q

\* A removal that leaves the list as it is.
ListRemove_none(l, q) ==
    l

ListRemove(l, q) ==
    LET i == CHOOSE k \in 1..Len(l) :
                 l[k] = q /\ \A m \in 1..(k - 1) : l[m] # q
    IN  SubSeq(l, 1, i - 1) \o SubSeq(l, i + 1, Len(l))

\* connections.get(job_id, [])
get_connections(j) ==
    IF j \in DOMAIN connections THEN connections[j] ELSE <<>>

\* The cap test that lets one more connection in.
at_capacity_late(n) ==
    n > MAX_CONNECTIONS_PER_JOB

at_capacity(n) ==
    n >= MAX_CONNECTIONS_PER_JOB

SseInit ==
    /\ connections = <<>>
    /\ connection_timestamps = <<>>
    /\ sse_clock = 0
    /\ queues_created = 0
    /\ sse_result = [job_id |-> "", queue |-> 0, outcome |-> "none"]

sse_tick ==
    /\ sse_clock + HeartbeatTimeout + 1 <= MaxSseClock
    /\ sse_clock' = sse_clock + HeartbeatTimeout + 1
    /\ UNCHANGED <<exceptSse, connections, connection_timestamps,
                   queues_created, sse_result>>

\* The stream route creates a new q for every request and registers it.
add_connection(j) ==
    /\ queues_created < MaxQueues
    /\ queues_created' = queues_created + 1
    /\ LET q == queues_created + 1
           created == IF j \in DOMAIN connections THEN connections
                      ELSE Put(connections, j, <<>>)
       IN  IF at_capacity(Len(created[j]))
           THEN /\ connections' = created
                /\ sse_result' = [job_id |-> j, queue |-> q,
                                  outcome |-> "ValueError"]
                /\ UNCHANGED connection_timestamps
           ELSE /\ connections' = Put(created, j, Append(created[j], q))
                /\ connection_timestamps' =
                       LET ts == IF j \in DOMAIN connection_timestamps
                                 THEN connection_timestamps[j] ELSE <<>>
                       IN  Put(connection_timestamps, j,
                               Put(ts, q, sse_clock))
                /\ sse_result' = [job_id |-> j, queue |-> q,
                                  outcome |-> "added"]
    /\ UNCHANGED <<exceptSse, sse_clock>>

\* A call for a queue that neither registry holds changes nothing.
remove_connection(j, q) ==
    /\ q \in 1..queues_created
    /\ \/ j \in DOMAIN connections /\ InList(connections[j], q)
       \/ j \in DOMAIN connection_timestamps
            /\ q \in DOMAIN connection_timestamps[j]
    /\ connections' =
           IF j \in DOMAIN connections /\ InList(connections[j], q)
           THEN LET l == ListRemove(connections[j], q)
                IN  IF Len(l) = 0 THEN Drop(connections, j)
                    ELSE Put(connections, j, l)
           ELSE connections
    /\ connection_timestamps' =
           IF j \in DOMAIN connection_timestamps
              /\ q \in DOMAIN connection_timestamps[j]
           THEN LET ts == Drop(connection_timestamps[j], q)
                IN  IF DOMAIN ts = {} THEN Drop(connection_timestamps, j)
                    ELSE Put(connection_timestamps, j, ts)
           ELSE connection_timestamps
    /\ UNCHANGED <<exceptSse, sse_clock, queues_created, sse_result>>

\* Per job with a timestamps entry: every q whose heartbeat is older
\* than the timeout leaves the list and the timestamps (a q missing
\* from the list keeps its timestamp); entries left empty are deleted.
cleanup_stale_connections ==
    LET current_time == sse_clock
        visited == DOMAIN connections \cap DOMAIN connection_timestamps
        stale(j) == {x \in DOMAIN connection_timestamps[j] :
                        /\ current_time - connection_timestamps[j][x]
                               > HeartbeatTimeout
                        /\ InList(connections[j], x)}
        queues(j) == IF j \in visited
                     THEN SelectSeq(connections[j], LAMBDA x : x \notin stale(j))
                     ELSE connections[j]
        timestamps(j) == IF j \in visited /\ j \in DOMAIN connections
                         THEN [x \in DOMAIN connection_timestamps[j] \ stale(j)
                                  |-> connection_timestamps[j][x]]
                         ELSE connection_timestamps[j]
    IN  /\ \E j \in visited : stale(j) # {}
        /\ connections' =
               [j \in {k \in DOMAIN connections :
                           k \in visited => Len(queues(k)) > 0}
                   |-> queues(j)]
        /\ connection_timestamps' =
               [j \in {k \in DOMAIN connection_timestamps :
                           k \in visited => DOMAIN timestamps(k) # {}}
                   |-> timestamps(j)]
        /\ UNCHANGED <<exceptSse, sse_clock, queues_created,
                       sse_result>>

NextSse ==
    \/ sse_tick
    \/ \E j \in SseJobs : add_connection(j)
    \/ \E j \in SseJobs, q \in 1..MaxQueues : remove_connection(j, q)
    \/ cleanup_stale_connections

\* ------------------------------------------------------------- queue order
\* services/queue_service.py enqueue_job and the pop of worker_loop.
PayloadKeys == <<"job_id", "user_id", "audio_url", "user_prompt", "created_at">>

\* json.dumps of a dict: its members as key/value pairs in insertion order.
json_dumps(d, keys) == [i \in 1..Len(keys) |-> <<keys[i], d[keys[i]]>>]

\* json.loads: the dict of the pairs; a key met again takes the later value.
json_loads(t) ==
    [k \in {t[i][1] : i \in 1..Len(t)} |->
        LET last == CHOOSE i \in 1..Len(t) :
                        t[i][1] = k /\ \A m \in (i + 1)..Len(t) : t[m][1] # k
        IN  t[last][2]]

\* LPUSH at the tail end of the list.
lpush_tail(l, v) ==
    Append(l, v)

\* LPUSH puts the value at the head; BRPOP takes the tail.
lpush(l, v) ==
    <<v>> \o l

FifoInit ==
    /\ queue_list = <<>>
    /\ enqueued = <<>>
    /\ popped = <<>>

enqueue_job(user_id, audio_url, user_prompt) ==
    /\ Len(enqueued) < MaxEnqueues
    /\ LET job_data == [job_id |-> Len(enqueued) + 1,
                        user_id |-> user_id,
                        audio_url |-> audio_url,
                        user_prompt |-> user_prompt,
                        created_at |-> Len(enqueued) + Len(popped)]
       IN  /\ queue_list' = lpush(queue_list, json_dumps(job_data, PayloadKeys))
           /\ enqueued' = Append(enqueued, job_data)
    /\ UNCHANGED <<exceptFifo, popped>>

worker_loop_brpop ==
    /\ queue_list # <<>>
    /\ LET job_json == queue_list[Len(queue_list)]
           job_data == json_loads(job_json)
       IN  /\ queue_list' = SubSeq(queue_list, 1, Len(queue_list) - 1)
           /\ popped' = Append(popped, job_data)
    /\ UNCHANGED <<exceptFifo, enqueued>>

NextFifo ==
    \/ \E user_id \in UserIds, audio_url \in AudioUrls, user_prompt \in Prompts :
           enqueue_job(user_id, audio_url, user_prompt)
    \/ worker_loop_brpop

\* ------------------------------------------------------------ cost tracker
\* shared/cost_tracking.py: the calls made on the module's cost_tracker for
\* one job, each split at its awaits.
TrackTasks == 1..MaxTrackers

\* An asyncio.Lock that never makes a caller wait.
can_acquire_always(holder) ==
    TRUE

\* async with lock: entered only while no call holds the lock.
can_acquire(holder) ==
    holder = 0

CostInit ==
    /\ locks = <<>>
    /\ job_costs = <<>>
    /\ stored_total = 0
    /\ tracker = [t \in TrackTasks |-> [pc |-> "idle", cost |-> 0,
                                        current_total |-> 0]]
    /\ contended = FALSE

\* The cost check, then _get_lock: the job's lock is created on first use.
track_cost_get_lock(t, cost) ==
    /\ tracker[t].pc = "idle"
    /\ cost >= 0
    /\ locks' = IF JobId \in DOMAIN locks THEN locks ELSE Put(locks, JobId, 0)
    /\ tracker' = [tracker EXCEPT ![t].pc = "lock", ![t].cost = cost]
    /\ contended' = (contended \/ (JobId \in DOMAIN locks /\ locks[JobId] # 0))
    /\ UNCHANGED <<exceptCost, job_costs, stored_total>>

track_cost_acquire(t) ==
    /\ tracker[t].pc = "lock"
    /\ can_acquire(locks[JobId])
    /\ locks' = Put(locks, JobId, t)
    /\ tracker' = [tracker EXCEPT ![t].pc = "insert"]
    /\ UNCHANGED <<exceptCost, job_costs, stored_total, contended>>

track_cost_insert(t) ==
    /\ tracker[t].pc = "insert"
    /\ job_costs' = Append(job_costs, [job_id |-> JobId, cost |-> tracker[t].cost])
    /\ tracker' = [tracker EXCEPT ![t].pc = "select"]
    /\ UNCHANGED <<exceptCost, locks, stored_total, contended>>

track_cost_select(t) ==
    /\ tracker[t].pc = "select"
    /\ tracker' = [tracker EXCEPT ![t].pc = "update",
                                  ![t].current_total = stored_total]
    /\ UNCHANGED <<exceptCost, locks, job_costs, stored_total, contended>>

\* The update of jobs.total_cost; the lock is released on the way out.
track_cost_update(t) ==
    /\ tracker[t].pc = "update"
    /\ LET new_total == tracker[t].current_total + tracker[t].cost
       IN  stored_total' = new_total
    /\ locks' = IF locks[JobId] = t THEN Put(locks, JobId, 0) ELSE locks
    /\ tracker' = [tracker EXCEPT ![t].pc = "done"]
    /\ UNCHANGED <<exceptCost, job_costs, contended>>

NextCost ==
    \/ \E t \in TrackTasks, cost \in TrackCosts : track_cost_get_lock(t, cost)
    \/ \E t \in TrackTasks : track_cost_acquire(t)
    \/ \E t \in TrackTasks : track_cost_insert(t)
    \/ \E t \in TrackTasks : track_cost_select(t)
    \/ \E t \in TrackTasks : track_cost_update(t)

\* ------------------------------------------------------------ status reads
\* routes/jobs.py get_job_status with dependencies.verify_job_ownership and
\* the cache of shared/redis_client.py.
StatusRequests == 1..MaxStatusRequests

RowKeys == <<"id", "user_id", "status">>

\* RedisClient._prefix_key
prefix_key(key) == <<"videogen:cache:">> \o key

\* f"job_status:{job_id}"
cache_key(job_id) == <<"job_status:", job_id>>

\* An ownership test that lets every caller through.
owns_any(row, current_user) ==
    TRUE

\* job.get("user_id") != current_user["user_id"] refuses the caller.
owns(row, current_user) ==
    row.user_id = current_user

NextStatus(st) ==
    CASE st = "queued" -> "processing"
      [] st = "processing" -> "completed"
      [] OTHER -> st

NoResponse == [code |-> 0, body |-> <<>>]

StatusInit ==
    /\ rows = [j \in {"j1", "j2"} |->
                 [id |-> j, user_id |-> IF j = "j1" THEN "u1" ELSE "u2",
                  status |-> "queued"]]
    /\ cache = <<>>
    /\ request = [r \in StatusRequests |->
                    [pc |-> "idle", user_id |-> "", job_id |-> "",
                     job |-> <<>>, response |-> NoResponse]]
    /\ row_updates = 0
    /\ served = {}
    /\ cache_touched = {}

\* A status write of the pipeline; its cache invalidation names the key
\* without the client's prefix.
row_update(j) ==
    /\ row_updates < MaxRowUpdates
    /\ j \in DOMAIN rows
    /\ NextStatus(rows[j].status) # rows[j].status
    /\ rows' = [rows EXCEPT ![j].status = NextStatus(rows[j].status)]
    /\ cache' = Drop(cache, cache_key(j))
    /\ row_updates' = row_updates + 1
    /\ UNCHANGED <<exceptStatus, request, served, cache_touched>>

\* The 30 s expiry of a cache entry.
cache_expire(k) ==
    /\ k \in DOMAIN cache
    /\ cache' = Drop(cache, k)
    /\ UNCHANGED <<exceptStatus, rows, request, row_updates, served,
                   cache_touched>>

\* verify_job_ownership: 404 for a missing row, 403 for a caller who is not
\* the row's user, else the row.
verify_job_ownership(r, current_user, job_id) ==
    /\ request[r].pc = "idle"
    /\ LET this == [request[r] EXCEPT !.user_id = current_user,
                                      !.job_id = job_id]
       IN  request' = [request EXCEPT ![r] =
               IF job_id \notin DOMAIN rows
               THEN [this EXCEPT !.pc = "done", !.response.code = 404]
               ELSE IF ~owns(rows[job_id], current_user)
               THEN [this EXCEPT !.pc = "done", !.response.code = 403]
               ELSE [this EXCEPT !.pc = "cache_get", !.job = rows[job_id]]]
    /\ UNCHANGED <<exceptStatus, rows, cache, row_updates, served,
                   cache_touched>>

get_job_status_cache_get(r) ==
    /\ request[r].pc = "cache_get"
    /\ LET key == prefix_key(cache_key(request[r].job_id))
       IN  IF key \in DOMAIN cache
           THEN LET cached_data == json_loads(cache[key])
                IN  /\ request' = [request EXCEPT ![r].pc = "done",
                           ![r].response = [code |-> 200, body |-> cached_data]]
                    /\ served' = served \cup
                           {[user_id |-> request[r].user_id,
                             job_id |-> request[r].job_id,
                             body |-> cached_data]}
           ELSE /\ request' = [request EXCEPT ![r].pc = "cache_set"]
                /\ UNCHANGED served
    /\ cache_touched' = cache_touched \cup
           {[user_id |-> request[r].user_id, job_id |-> request[r].job_id]}
    /\ UNCHANGED <<exceptStatus, rows, cache, row_updates>>

get_job_status_cache_set(r) ==
    /\ request[r].pc = "cache_set"
    /\ LET key == prefix_key(cache_key(request[r].job_id))
           body == [k \in {RowKeys[i] : i \in 1..Len(RowKeys)} |->
                       request[r].job[k]]
       IN  /\ cache' = Put(cache, key, json_dumps(request[r].job, RowKeys))
           /\ request' = [request EXCEPT ![r].pc = "done",
                  ![r].response = [code |-> 200, body |-> body]]
           /\ served' = served \cup
                  {[user_id |-> request[r].user_id,
                    job_id |-> request[r].job_id, body |-> body]}
    /\ UNCHANGED <<exceptStatus, rows, row_updates, cache_touched>>

NextStatusRead ==
    \/ \E j \in StatusJobs : row_update(j)
    \/ \E j \in StatusJobs : cache_expire(prefix_key(cache_key(j)))
    \/ \E r \in StatusRequests, u \in UserIds, j \in StatusJobs :
           verify_job_ownership(r, u, j)
    \/ \E r \in StatusRequests : get_job_status_cache_get(r)
    \/ \E r \in StatusRequests : get_job_status_cache_set(r)

\* --------------------------------------------------------------- list_jobs
\* routes/jobs.py list_jobs over the store's query builder.
ListStatuses == {"queued", "failed"}
StatusFilters == {"None"} \cup ListStatuses
Limits == {1, 2}
Offsets == {0, 1}

\* .eq("user_id", user_id) and, with a filter, .eq("status", status_filter)
matching(table, user_id, status_filter) ==
    SelectSeq(table, LAMBDA row :
        /\ row.user_id = user_id
        /\ status_filter # "None" => row.status = status_filter)

\* .limit(n): the first n rows of the result, in the store's order.
store_limit(result, n) ==
    SubSeq(result, 1, IF n < Len(result) THEN n ELSE Len(result))

\* list.sort(key=created_at, reverse=True): descending, rows of equal key
\* keep their order.
RECURSIVE sort_created_at_desc(_)
sort_created_at_desc(l) ==
    IF l = <<>> THEN <<>>
    ELSE LET first == CHOOSE i \in 1..Len(l) :
                 /\ \A k \in 1..Len(l) : l[k].created_at <= l[i].created_at
                 /\ \A k \in 1..(i - 1) : l[k].created_at < l[i].created_at
         IN  <<l[first]>> \o
             sort_created_at_desc(SubSeq(l, 1, first - 1)
                                  \o SubSeq(l, first + 1, Len(l)))

\* l[a:b]
slice(l, a, b) ==
    SubSeq(l, a + 1, IF b < Len(l) THEN b ELSE Len(l))

ListInit ==
    /\ jobs_table = <<>>
    /\ list_result = [user_id |-> "", status_filter |-> "None", limit |-> 0,
                      offset |-> 0, jobs |-> <<>>, total |-> 0]
    /\ list_calls = 0

\* A row inserted by upload_audio; the store may return it at any position.
store_insert(user_id, st, pos) ==
    /\ Len(jobs_table) < MaxRows
    /\ pos \in 0..Len(jobs_table)
    /\ LET row == [id |-> Len(jobs_table) + 1, user_id |-> user_id,
                   status |-> st, created_at |-> Len(jobs_table) + 1]
       IN  jobs_table' = SubSeq(jobs_table, 1, pos) \o <<row>>
                         \o SubSeq(jobs_table, pos + 1, Len(jobs_table))
    /\ UNCHANGED <<exceptList, list_result, list_calls>>

list_jobs(user_id, status_filter, limit, offset) ==
    /\ list_calls < MaxListCalls
    /\ list_calls' = list_calls + 1
    /\ LET query == matching(jobs_table, user_id, status_filter)
           total == Len(query)
           all_jobs == sort_created_at_desc(store_limit(query, limit + offset))
           jobs == slice(all_jobs, offset, offset + limit)
       IN  list_result' = [user_id |-> user_id,
                           status_filter |-> status_filter,
                           limit |-> limit, offset |-> offset,
                           jobs |-> jobs, total |-> total]
    /\ UNCHANGED <<exceptList, jobs_table>>

NextList ==
    \/ \E user_id \in UserIds, st \in ListStatuses, pos \in 0..MaxRows :
           store_insert(user_id, st, pos)
    \/ \E user_id \in UserIds, status_filter \in StatusFilters,
          limit \in Limits, offset \in Offsets :
           list_jobs(user_id, status_filter, limit, offset)

\* -------------------------------------------------------- token validation
\* dependencies.get_current_user with the cache of shared/redis_client.py.
Tokens == {"t1", "t2", "t3", "bad"}

\* hashlib.sha256(token.encode()).hexdigest(): a digest per token.
sha256_hexdigest(token) == <<"sha256", token>>

\* f"jwt_valid:{token_hash}"
jwt_cache_key(token_hash) == <<"jwt_valid:">> \o token_hash

\* jwt.decode with the shared secret: the claims of a token that verifies
\* (sub "" is a payload without sub), JWTError for one that does not.
jwt_decode(token) ==
    CASE token = "t1" -> [JWTError |-> FALSE, sub |-> "u1"]
      [] token = "t2" -> [JWTError |-> FALSE, sub |-> "u2"]
      [] token = "t3" -> [JWTError |-> FALSE, sub |-> ""]
      [] OTHER -> [JWTError |-> TRUE, sub |-> ""]

\* A cache read whose result is never used.
cache_hit_never(cached) ==
    FALSE

\* if cached:
cache_hit(cached) ==
    cached # <<>>

\* RedisClient.get: the text under a key that has not expired; None, which
\* like the empty text is falsy, is <<>>.
redis_get(store, key, now) ==
    IF prefix_key(key) \in DOMAIN store /\ now < store[prefix_key(key)].expires_at
    THEN store[prefix_key(key)].value
    ELSE <<>>

\* RedisClient.set with ex seconds to live.
redis_set(store, key, value, ex, now) ==
    Put(store, prefix_key(key), [value |-> value, expires_at |-> now + ex])

NoCall == [pc |-> "idle", token |-> "", cache_failed |-> FALSE]

TokenInit ==
    /\ token_cache = <<>>
    /\ token_clock = 0
    /\ token_ticks = 0
    /\ token_call = NoCall
    /\ validations = <<>>

token_tick(d) ==
    /\ token_ticks < MaxTokenTicks
    /\ token_ticks' = token_ticks + 1
    /\ token_clock' = token_clock + d
    /\ UNCHANGED <<exceptToken, token_cache, token_call, validations>>

\* What a finished call leaves in the log: its answer, whether jwt.decode
\* ran, and the expiry of the token's cache entry as the call leaves it.
Validated(token, user_id, decoded, cache_failed, store) ==
    [token |-> token, user_id |-> user_id, decoded |-> decoded,
     at |-> token_clock, cache_failed |-> cache_failed,
     expires_at |->
        LET key == prefix_key(jwt_cache_key(sha256_hexdigest(token)))
        IN  IF key \in DOMAIN store THEN store[key].expires_at ELSE 0]

\* The cache read; ok = FALSE is a broker failure, logged and ignored.
get_current_user_cache_get(token, ok) ==
    /\ token_call.pc = "idle"
    /\ Len(validations) < MaxValidations
    /\ LET cache_key_ == jwt_cache_key(sha256_hexdigest(token))
           cached == IF ok THEN redis_get(token_cache, cache_key_, token_clock)
                     ELSE <<>>
       IN  IF ok /\ cache_hit(cached)
           THEN /\ validations' = Append(validations,
                       Validated(token, json_loads(cached)["user_id"], FALSE,
                                 FALSE, token_cache))
                /\ UNCHANGED token_call
           ELSE /\ token_call' = [pc |-> "decode", token |-> token,
                                   cache_failed |-> ~ok]
                /\ UNCHANGED validations
    /\ UNCHANGED <<exceptToken, token_cache, token_clock, token_ticks>>

\* jwt.decode, then the cache write (ok = FALSE: it fails and is ignored).
get_current_user_decode(ok) ==
    /\ token_call.pc = "decode"
    /\ LET token == token_call.token
           payload == jwt_decode(token)
           cache_key_ == jwt_cache_key(sha256_hexdigest(token))
       IN  IF payload.JWTError \/ payload.sub = ""
           THEN /\ ok
                /\ validations' = Append(validations,
                       Validated(token, "HTTP_401", TRUE,
                                 token_call.cache_failed, token_cache))
                /\ UNCHANGED token_cache
           ELSE LET user_data == [user_id |-> payload.sub]
                    store == IF ok
                             THEN redis_set(token_cache, cache_key_,
                                      json_dumps(user_data, <<"user_id">>),
                                      JwtCacheSeconds, token_clock)
                             ELSE token_cache
                IN  /\ token_cache' = store
                    /\ validations' = Append(validations,
                           Validated(token, user_data.user_id, TRUE,
                                     token_call.cache_failed \/ ~ok, store))
    /\ token_call' = NoCall
    /\ UNCHANGED <<exceptToken, token_clock, token_ticks>>

NextToken ==
    \/ \E d \in TokenTickChoices : token_tick(d)
    \/ \E token \in Tokens, ok \in BOOLEAN :
           get_current_user_cache_get(token, ok)
    \/ \E ok \in BOOLEAN : get_current_user_decode(ok)

\* ------------------------------------------------------------ event stream
\* routes/stream.event_generator with sse_manager.get_initial_state, and
\* orchestrator.update_progress as the source of events.
StreamIds == {1, 2}

InitialStateKeys == <<"progress", "stage", "status", "total_cost">>

ProgressDataKeys == <<"progress", "estimated_remaining", "stage">>

\* f"event: {event_type}\ndata: {json.dumps(data)}\n\n"; via says where the
\* message was made.
SseMessage(event_type, data, keys, via) ==
    [event |-> event_type, data |-> json_dumps(data, keys), via |-> via]

\* An initial state that ignores the row.
get_initial_state_defaults(result) ==
    [progress |-> 0, stage |-> "None", status |-> "queued", total_cost |-> 0]

\* get_initial_state: result.data are the rows the select returned, unless
\* it raised.
get_initial_state(result) ==
    IF ~result.raised /\ result.data # <<>>
    THEN LET row == result.data[1]
         IN  [progress |-> row.progress, stage |-> row.current_stage,
              status |-> row.status, total_cost |-> row.total_cost]
    ELSE [progress |-> 0, stage |-> "None", status |-> "queued",
          total_cost |-> 0]

NoStream ==
    [pc |-> "idle", queue |-> <<>>, inbox |-> <<>>, written |-> <<>>,
     subscribed |-> FALSE, heartbeat |-> FALSE, stale |-> FALSE,
     read |-> [outcome |-> "unread"],
     initial_state |-> <<>>]

StreamInit ==
    /\ stream_row = [progress |-> 0, current_stage |-> "None",
                     status |-> "queued", total_cost |-> 0]
    /\ stream_registry = <<>>
    /\ stream_others = 0
    /\ stream = [s \in StreamIds |-> NoStream]
    /\ updater = [pc |-> "idle", progress |-> 0, stage |-> "None"]

\* Clients that are not modelled hold n of the job's connections.
other_clients_connect(n) ==
    /\ stream_others = 0 /\ stream_registry = <<>>
    /\ \A s \in StreamIds : stream[s].pc = "idle"
    /\ stream_others' = n
    /\ UNCHANGED <<exceptStream, stream_row, stream_registry, stream, updater>>

\* update_progress, called by the pipeline with growing progress values:
\* the row write,
update_progress_write(progress, stage_name) ==
    /\ updater.pc = "idle"
    /\ progress > stream_row.progress
    /\ stream_row' = [stream_row EXCEPT !.progress = progress,
                                        !.current_stage = stage_name]
    /\ updater' = [pc |-> "publish", progress |-> progress,
                   stage |-> stage_name]
    /\ UNCHANGED <<exceptStream, stream_registry, stream_others, stream>>

\* then publish_event on the job's channel: every subscribed listener gets
\* the message,
update_progress_publish_event ==
    /\ updater.pc = "publish"
    /\ LET data == [progress |-> updater.progress,
                    estimated_remaining |-> "None", stage |-> updater.stage]
           message == [event_type |-> "progress",
                       data |-> json_dumps(data, ProgressDataKeys)]
       IN  stream' = [s \in StreamIds |->
                        IF stream[s].subscribed
                        THEN [stream[s] EXCEPT !.inbox = Append(@, message)]
                        ELSE stream[s]]
    /\ updater' = [updater EXCEPT !.pc = "broadcast"]
    /\ UNCHANGED <<exceptStream, stream_row, stream_registry, stream_others>>

\* update_progress runs in the worker process (worker.py), whose copy of
\* sse_manager.connections no stream route ever adds to.
worker_connections == <<>>

\* then broadcast_event: a put on every queue get_connections returns in the
\* process of the caller.
update_progress_broadcast_event ==
    /\ updater.pc = "broadcast"
    /\ LET data == [progress |-> updater.progress,
                    estimated_remaining |-> "None", stage |-> updater.stage]
           message == SseMessage("progress", data, ProgressDataKeys,
                                 "broadcast_event")
           connections_list == worker_connections
       IN  stream' = [s \in StreamIds |->
                        IF InList(connections_list, s)
                        THEN [stream[s] EXCEPT !.queue = Append(@, message)]
                        ELSE stream[s]]
    /\ updater' = [updater EXCEPT !.pc = "idle"]
    /\ UNCHANGED <<exceptStream, stream_row, stream_registry, stream_others>>

\* event_generator: add_connection; the ValueError of a full job ends the
\* generator before its first yield.
event_generator_add_connection(s) ==
    /\ stream[s].pc = "idle"
    /\ IF at_capacity(stream_others + Len(stream_registry))
       THEN /\ stream' = [stream EXCEPT ![s].pc = "ValueError"]
            /\ UNCHANGED stream_registry
       ELSE /\ stream' = [stream EXCEPT ![s].pc = "get_initial_state"]
            /\ stream_registry' = Append(stream_registry, s)
    /\ UNCHANGED <<exceptStream, stream_row, stream_others, updater>>

\* The select of get_initial_state returns the row, no row, or raises.
event_generator_get_initial_state(s, outcome) ==
    /\ stream[s].pc = "get_initial_state"
    /\ LET result == [raised |-> outcome = "Exception",
                      data |-> IF outcome = "row" THEN <<stream_row>>
                               ELSE <<>>]
       IN  stream' = [stream EXCEPT
               ![s].pc = "yield_initial",
               ![s].read = [outcome |-> outcome, row |-> stream_row],
               ![s].initial_state = get_initial_state(result)]
    /\ UNCHANGED <<exceptStream, stream_row, stream_registry, stream_others,
                   updater>>

\* yield initial_event
event_generator_yield_initial(s) ==
    /\ stream[s].pc = "yield_initial"
    /\ stream' = [stream EXCEPT
           ![s].pc = "subscribe",
           ![s].written = Append(@, SseMessage("progress",
                                     stream[s].initial_state,
                                     InitialStateKeys, "get_initial_state"))]
    /\ UNCHANGED <<exceptStream, stream_row, stream_registry, stream_others,
                   updater>>

\* pubsub.subscribe(channel) and the start of the listener task
event_generator_subscribe(s) ==
    /\ stream[s].pc = "subscribe"
    /\ stream' = [stream EXCEPT ![s].pc = "loop", ![s].subscribed = TRUE]
    /\ UNCHANGED <<exceptStream, stream_row, stream_registry, stream_others,
                   updater>>

\* pubsub_listener: a channel message is formatted and put on the queue.
pubsub_listener(s) ==
    /\ stream[s].subscribed
    /\ stream[s].inbox # <<>>
    /\ LET event_data == Head(stream[s].inbox)
           sse_message == [event |-> event_data.event_type,
                           data |-> event_data.data,
                           via |-> "pubsub_listener"]
       IN  stream' = [stream EXCEPT ![s].inbox = Tail(@),
                                    ![s].queue = Append(@, sse_message)]
    /\ UNCHANGED <<exceptStream, stream_row, stream_registry, stream_others,
                   updater>>

\* The main loop: queue.get() and yield.
event_generator_yield_event(s) ==
    /\ stream[s].pc = "loop"
    /\ stream[s].queue # <<>>
    /\ stream' = [stream EXCEPT ![s].queue = Tail(@),
                                ![s].written = Append(@, Head(stream[s].queue))]
    /\ UNCHANGED <<exceptStream, stream_row, stream_registry, stream_others,
                   updater>>

\* The wait for the queue times out: a heartbeat is written (the first of
\* a generator is followed here) and update_connection_timestamp renews the
\* timestamp of a queue that is still registered.
event_generator_heartbeat(s) ==
    /\ stream[s].pc = "loop"
    /\ stream[s].queue = <<>>
    /\ ~stream[s].heartbeat
    /\ stream' = [stream EXCEPT
           ![s].heartbeat = TRUE,
           ![s].stale = IF InList(stream_registry, s) THEN FALSE ELSE @,
           ![s].written = Append(@, [event |-> "heartbeat",
                                     data |-> <<<<"timestamp", "utcnow">>>>,
                                     via |-> "heartbeat"])]
    /\ UNCHANGED <<exceptStream, stream_row, stream_registry, stream_others,
                   updater>>

\* More than 60 seconds pass since the timestamp of a registered queue was
\* set: the generator is held in a yield by a client that reads slowly, or
\* events keep its wait from timing out.
heartbeat_overdue(s) ==
    /\ stream[s].pc \in {"get_initial_state", "yield_initial", "subscribe",
                         "loop"}
    /\ InList(stream_registry, s)
    /\ ~stream[s].stale
    /\ stream' = [stream EXCEPT ![s].stale = TRUE]
    /\ UNCHANGED <<exceptStream, stream_row, stream_registry, stream_others,
                   updater>>

\* The list without the queues whose timestamp is older than the timeout.
without_stale(l) ==
    SelectSeq(l, LAMBDA q : ~stream[q].stale)

\* cleanup_task of a generator that has reached its loop: every 30 seconds
\* cleanup_stale_connections takes the stale queues out of the registry.
cleanup_task_cleanup_stale_connections(s) ==
    /\ stream[s].pc = "loop"
    /\ stream_registry' = without_stale(stream_registry)
    /\ UNCHANGED <<exceptStream, stream_row, stream_others, stream, updater>>

\* The client goes away; finally: remove_connection and unsubscribe, and
\* the generator's queue is garbage.
event_generator_finally(s) ==
    /\ stream[s].pc = "loop"
    /\ stream' = [stream EXCEPT ![s].pc = "closed", ![s].subscribed = FALSE,
                                ![s].inbox = <<>>, ![s].queue = <<>>]
    /\ stream_registry' = IF InList(stream_registry, s)
                          THEN ListRemove(stream_registry, s)
                          ELSE stream_registry
    /\ UNCHANGED <<exceptStream, stream_row, stream_others, updater>>

NextStream ==
    \/ \E n \in OtherClientChoices : other_clients_connect(n)
    \/ \E progress \in ProgressChoices, stage_name \in StageChoices :
           update_progress_write(progress, stage_name)
    \/ update_progress_publish_event
    \/ update_progress_broadcast_event
    \/ \E s \in StreamIds : event_generator_add_connection(s)
    \/ \E s \in StreamIds, outcome \in {"row", "empty", "Exception"} :
           event_generator_get_initial_state(s, outcome)
    \/ \E s \in StreamIds : event_generator_yield_initial(s)
    \/ \E s \in StreamIds : event_generator_subscribe(s)
    \/ \E s \in StreamIds : pubsub_listener(s)
    \/ \E s \in StreamIds : event_generator_yield_event(s)
    \/ \E s \in StreamIds : event_generator_heartbeat(s)
    \/ \E s \in StreamIds : heartbeat_overdue(s)
    \/ \E s \in StreamIds : cleanup_task_cleanup_stale_connections(s)
    \/ \E s \in StreamIds : event_generator_finally(s)

\* --------------------------------------------------------- specifications
\* ------------------------------------------------- upload, queue and worker
\* routes/upload.py from the row insert on, services/queue_service.py
\* enqueue_job, and worker.py worker_loop with process_job, split at awaits.
WorkerJobs == 1..MaxUploads

NoJobData ==
    [job_id |-> 0, user_id |-> "", audio_url |-> "", user_prompt |-> "",
     created_at |-> 0]

NotStarted ==
    [pc |-> "brpop", job_data |-> NoJobData, cached |-> <<>>, calls |-> <<>>,
     raised |-> FALSE]

WorkerInit ==
    /\ w_rows = [j \in WorkerJobs |-> [status |-> "absent", error_message |-> ""]]
    /\ w_response = [j \in WorkerJobs |-> 0]
    /\ w_list = <<>>
    /\ w_keys = {}
    /\ w_processing = {}
    /\ up = [pc |-> "idle", job_data |-> NoJobData]
    /\ wk = NotStarted
    /\ w_popped = {}
    /\ w_deleted = {}

\* upload_audio, lines 93-106: the job row is inserted with status queued.
upload_audio_insert(user_id, audio_url, user_prompt) ==
    /\ up.pc = "idle"
    /\ \E job_id \in WorkerJobs :
          /\ w_rows[job_id].status = "absent"
          /\ \A j \in WorkerJobs : j < job_id => w_rows[j].status # "absent"
          /\ w_rows' = [w_rows EXCEPT ![job_id].status = "queued"]
          /\ up' = [pc |-> "lpush",
                    job_data |-> [job_id |-> job_id, user_id |-> user_id,
                                  audio_url |-> audio_url,
                                  user_prompt |-> user_prompt,
                                  created_at |-> job_id]]
    /\ UNCHANGED <<exceptWorker, w_response, w_list, w_keys, w_processing, wk,
                   w_popped, w_deleted>>

\* enqueue_job's LPUSH; when it raises, enqueue_job re-raises and upload_audio
\* answers 500 from its except Exception clause.
enqueue_job_lpush(ok) ==
    /\ up.pc = "lpush"
    /\ IF ok
       THEN /\ w_list' = lpush(w_list, json_dumps(up.job_data, PayloadKeys))
            /\ up' = [up EXCEPT !.pc = "set"]
            /\ UNCHANGED w_response
       ELSE /\ w_response' = [w_response EXCEPT ![up.job_data.job_id] = 500]
            /\ up' = [pc |-> "idle", job_data |-> NoJobData]
            /\ UNCHANGED w_list
    /\ UNCHANGED <<exceptWorker, w_rows, w_keys, w_processing, wk, w_popped,
                   w_deleted>>

\* enqueue_job's SET of the payload key, then upload_audio's 201 response.
enqueue_job_set(ok) ==
    /\ up.pc = "set"
    /\ IF ok
       THEN /\ w_keys' = w_keys \cup {up.job_data.job_id}
            /\ w_response' = [w_response EXCEPT ![up.job_data.job_id] = 201]
       ELSE /\ w_response' = [w_response EXCEPT ![up.job_data.job_id] = 500]
            /\ UNCHANGED w_keys
    /\ up' = [pc |-> "idle", job_data |-> NoJobData]
    /\ UNCHANGED <<exceptWorker, w_rows, w_list, w_processing, wk, w_popped,
                   w_deleted>>

\* process_job's all([job_id, user_id, audio_url, user_prompt]).
well_formed(job_data) ==
    /\ job_data.job_id # 0
    /\ job_data.user_id # ""
    /\ job_data.audio_url # ""
    /\ job_data.user_prompt # ""

\* A marker test that never finds the marker.
cancel_flag_set_never(cached) ==
    FALSE

\* if await redis_client.get(cancel_key): None is <<>> here.
cancel_flag_set(cached) ==
    cached # <<>>

\* A loop whose cleanup is skipped when the call raised.
worker_loop_finally_skipped(raised) ==
    IF raised THEN "sleep" ELSE "srem"

\* The finally clause of worker_loop: where control goes when
\* process_job_with_limit has returned or raised.
worker_loop_finally(raised) ==
    "srem"

\* worker_loop's BRPOP and json.loads.
worker_loop_pop ==
    /\ wk.pc = "brpop"
    /\ w_list # <<>>
    /\ LET job_data == json_loads(w_list[Len(w_list)])
       IN  /\ w_list' = SubSeq(w_list, 1, Len(w_list) - 1)
           /\ wk' = [NotStarted EXCEPT !.pc = "sadd", !.job_data = job_data]
           /\ w_popped' = w_popped \cup {job_data.job_id}
    /\ UNCHANGED <<exceptWorker, w_rows, w_response, w_keys, w_processing, up,
                   w_deleted>>

worker_loop_sadd ==
    /\ wk.pc = "sadd"
    /\ w_processing' = w_processing \cup {wk.job_data.job_id}
    /\ wk' = [wk EXCEPT !.pc = "get"]
    /\ UNCHANGED <<exceptWorker, w_rows, w_response, w_list, w_keys, up,
                   w_popped, w_deleted>>

\* process_job up to the marker test; cached is what the broker returns for
\* job_cancel:{job_id}.
process_job_get(cached) ==
    /\ wk.pc = "get"
    /\ wk' = [wk EXCEPT
                !.cached = cached,
                !.pc = IF ~well_formed(wk.job_data)
                         THEN worker_loop_finally(FALSE)
                       ELSE IF cancel_flag_set(cached) THEN "cancelled"
                       ELSE "execute"]
    /\ UNCHANGED <<exceptWorker, w_rows, w_response, w_list, w_keys,
                   w_processing, up, w_popped, w_deleted>>

\* The marker was found: the row is set to failed and process_job returns.
process_job_cancelled ==
    /\ wk.pc = "cancelled"
    /\ w_rows' = [w_rows EXCEPT ![wk.job_data.job_id] =
                     [status |-> "failed", error_message |-> CancelMessage]]
    /\ wk' = [wk EXCEPT !.pc = worker_loop_finally(FALSE)]
    /\ UNCHANGED <<exceptWorker, w_response, w_list, w_keys, w_processing, up,
                   w_popped, w_deleted>>

\* execute_pipeline as process_job sees it.  outcome is how the stages end;
\* written tells whether handle_pipeline_error's row update went through (its
\* own except clause swallows a failing update).  A PipelineError or
\* BudgetExceededError is logged by process_job; any other exception goes to
\* its except Exception clause.
process_job_execute_pipeline(outcome, written) ==
    /\ wk.pc = "execute"
    /\ LET job_id == wk.job_data.job_id
           call == <<job_id, wk.job_data.audio_url, wk.job_data.user_prompt>>
       IN  /\ w_rows' = [w_rows EXCEPT ![job_id] =
                  IF outcome = "completed"
                    THEN [status |-> "completed", error_message |-> ""]
                  ELSE IF written
                    THEN [status |-> "failed", error_message |-> outcome]
                  ELSE [status |-> "processing", error_message |-> ""]]
           /\ wk' = [wk EXCEPT
                       !.calls = Append(wk.calls, call),
                       !.pc = IF outcome = "Exception" THEN "unexpected"
                              ELSE worker_loop_finally(FALSE)]
    /\ UNCHANGED <<exceptWorker, w_response, w_list, w_keys, w_processing, up,
                   w_popped, w_deleted>>

\* process_job's except Exception clause: one more row update; when it raises
\* the exception leaves process_job and process_job_with_limit.
process_job_unexpected_update(ok) ==
    /\ wk.pc = "unexpected"
    /\ IF ok
       THEN /\ w_rows' = [w_rows EXCEPT ![wk.job_data.job_id] =
                   [status |-> "failed", error_message |-> "Unexpected error"]]
            /\ wk' = [wk EXCEPT !.pc = worker_loop_finally(FALSE)]
       ELSE /\ wk' = [wk EXCEPT !.raised = TRUE,
                                !.pc = worker_loop_finally(TRUE)]
            /\ UNCHANGED w_rows
    /\ UNCHANGED <<exceptWorker, w_response, w_list, w_keys, w_processing, up,
                   w_popped, w_deleted>>

worker_loop_srem ==
    /\ wk.pc = "srem"
    /\ w_processing' = w_processing \ {wk.job_data.job_id}
    /\ wk' = [wk EXCEPT !.pc = "delete"]
    /\ UNCHANGED <<exceptWorker, w_rows, w_response, w_list, w_keys, up,
                   w_popped, w_deleted>>

\* The delete of the payload key; an exception that was passing through the
\* finally clause then reaches the loop's except Exception clause.
worker_loop_delete ==
    /\ wk.pc = "delete"
    /\ w_keys' = w_keys \ {wk.job_data.job_id}
    /\ w_deleted' = w_deleted \cup {wk.job_data.job_id}
    /\ wk' = [wk EXCEPT !.pc = IF wk.raised THEN "sleep" ELSE "brpop"]
    /\ UNCHANGED <<exceptWorker, w_rows, w_response, w_list, w_processing, up,
                   w_popped>>

\* asyncio.sleep(5) of the loop's except Exception clause.
worker_loop_sleep ==
    /\ wk.pc = "sleep"
    /\ wk' = [wk EXCEPT !.pc = "brpop"]
    /\ UNCHANGED <<exceptWorker, w_rows, w_response, w_list, w_keys,
                   w_processing, up, w_popped, w_deleted>>

PipelineOutcomes == {"completed", "PipelineError", "BudgetExceededError",
                     "Exception"}

NextWorkerLoop ==
    \/ worker_loop_pop
    \/ worker_loop_sadd
    \/ \E cached \in {<<>>, <<"1">>} : process_job_get(cached)
    \/ process_job_cancelled
    \/ \E outcome \in PipelineOutcomes, written \in BOOLEAN :
           process_job_execute_pipeline(outcome, written)
    \/ \E ok \in BOOLEAN : process_job_unexpected_update(ok)
    \/ worker_loop_srem
    \/ worker_loop_delete
    \/ worker_loop_sleep

NextWorker ==
    \/ \E audio_url \in AudioUrls, user_prompt \in Prompts :
           upload_audio_insert("u1", audio_url, user_prompt)
    \/ \E ok \in BOOLEAN : enqueue_job_lpush(ok)
    \/ \E ok \in BOOLEAN : enqueue_job_set(ok)
    \/ NextWorkerLoop

\* ------------------------------------------------------- worker semaphore
\* worker.py lines 21-23 and process_job_with_limit.  The calls are made by
\* concurrent tasks: worker_loop, which awaits each call, is the case of one.
MAX_CONCURRENT_JOBS == 3

SemTasks == 1..4

SemInit ==
    /\ sem_value = MAX_CONCURRENT_JOBS
    /\ sem_tasks = [t \in SemTasks |-> [pc |-> "idle", last |-> "none"]]

\* A semaphore that never makes a task wait.
semaphore_free_always(value) ==
    TRUE

\* asyncio.Semaphore.acquire goes through while the value is positive.
semaphore_free(value) ==
    value > 0

\* The call of process_job_with_limit, up to async with semaphore.
process_job_with_limit_call(t) ==
    /\ sem_tasks[t].pc = "idle"
    /\ sem_tasks' = [sem_tasks EXCEPT ![t].pc = "acquire"]
    /\ UNCHANGED <<exceptSem, sem_value>>

\* __aenter__: the value is taken down by one and process_job starts.
semaphore_acquire(t) ==
    /\ sem_tasks[t].pc = "acquire"
    /\ semaphore_free(sem_value)
    /\ sem_value' = sem_value - 1
    /\ sem_tasks' = [sem_tasks EXCEPT ![t].pc = "process_job"]
    /\ UNCHANGED exceptSem

\* process_job returns or raises; __aexit__ releases in both cases.
semaphore_release(t, outcome) ==
    /\ sem_tasks[t].pc = "process_job"
    /\ sem_value' = sem_value + 1
    /\ sem_tasks' = [sem_tasks EXCEPT ![t] = [pc |-> "idle", last |-> outcome]]
    /\ UNCHANGED exceptSem

NextSem ==
    \/ \E t \in SemTasks : process_job_with_limit_call(t)
    \/ \E t \in SemTasks : semaphore_acquire(t)
    \/ \E t \in SemTasks, outcome \in {"returned", "raised"} :
           semaphore_release(t, outcome)

\* ------------------------------------------------------------ hub mutex
\* services/sse_manager.py: what each function does between taking and
\* leaving connections_lock, and broadcast_event's puts.  A body without an
\* await is one step.
HubQueues == {1, 2, 3}

HubInit ==
    /\ hub_connections = <<>>
    /\ hub_lock = "free"
    /\ hub_broadcast = [pc |-> "idle", connections_list |-> <<>>]
    /\ hub_last_put = 0

\* A mutex that stays with the function that took it.
lock_kept(holder) ==
    holder

\* The end of an async with connections_lock block, by return or by raise.
lock_released(holder) ==
    "free"

locked_add_connection(q) ==
    /\ hub_lock = "free"
    /\ ~InList(hub_connections, q)
    /\ hub_connections' = IF at_capacity(Len(hub_connections))
                          THEN hub_connections
                          ELSE Append(hub_connections, q)
    /\ hub_lock' = lock_released("add_connection")
    /\ UNCHANGED <<exceptHub, hub_broadcast, hub_last_put>>

locked_remove_connection(q) ==
    /\ hub_lock = "free"
    /\ hub_connections' = IF InList(hub_connections, q)
                          THEN ListRemove(hub_connections, q)
                          ELSE hub_connections
    /\ hub_lock' = lock_released("remove_connection")
    /\ UNCHANGED <<exceptHub, hub_broadcast, hub_last_put>>

\* stale are the queues whose timestamp is older than the timeout.
locked_cleanup_stale_connections(stale) ==
    /\ hub_lock = "free"
    /\ hub_connections' = SelectSeq(hub_connections, LAMBDA x : x \notin stale)
    /\ hub_lock' = lock_released("cleanup_stale_connections")
    /\ UNCHANGED <<exceptHub, hub_broadcast, hub_last_put>>

\* broadcast_event: get_connections copies the list under the lock; an empty
\* list ends the call.
broadcast_event_get_connections ==
    /\ hub_broadcast.pc = "idle"
    /\ hub_lock = "free"
    /\ hub_broadcast' = [pc |-> IF hub_connections = <<>> THEN "idle"
                               ELSE "put",
                         connections_list |-> hub_connections]
    /\ hub_lock' = lock_released("get_connections")
    /\ UNCHANGED <<exceptHub, hub_connections, hub_last_put>>

\* for queue in connections_list: await queue.put(message)
broadcast_event_put ==
    /\ hub_broadcast.pc = "put"
    /\ hub_last_put' = Head(hub_broadcast.connections_list)
    /\ hub_broadcast' =
           [pc |-> IF Len(hub_broadcast.connections_list) = 1 THEN "idle"
                   ELSE "put",
            connections_list |-> Tail(hub_broadcast.connections_list)]
    /\ UNCHANGED <<exceptHub, hub_connections, hub_lock>>

NextHub ==
    \/ \E q \in HubQueues : locked_add_connection(q)
    \/ \E q \in HubQueues : locked_remove_connection(q)
    \/ \E stale \in SUBSET HubQueues : locked_cleanup_stale_connections(stale)
    \/ broadcast_event_get_connections
    \/ broadcast_event_put

vars == <<jobVars, auxVars>>

AuxInit ==
    /\ RateInit
    /\ SseInit
    /\ FifoInit
    /\ CostInit
    /\ StatusInit
    /\ ListInit
    /\ TokenInit
    /\ StreamInit
    /\ WorkerInit
    /\ SemInit
    /\ HubInit

Init ==
    /\ JobInit
    /\ AuxInit

Spec == Init /\ [][Next]_vars

\* The other components are checked with the job model at rest.
InitAux ==
    /\ Init
    /\ environment = "development"

SpecRate == InitAux /\ [][NextRate]_vars

SpecSse == InitAux /\ [][NextSse]_vars

SpecFifo == InitAux /\ [][NextFifo]_vars

SpecCost == InitAux /\ [][NextCost]_vars

SpecStatus == InitAux /\ [][NextStatusRead]_vars

SpecList == InitAux /\ [][NextList]_vars

SpecToken == InitAux /\ [][NextToken]_vars

SpecStream == InitAux /\ [][NextStream]_vars

SpecWorker == InitAux /\ [][NextWorker]_vars

\* The worker is a running process: its loop keeps taking steps.
SpecWorkerFair == SpecWorker /\ WF_vars(NextWorkerLoop)

SpecSem == InitAux /\ [][NextSem]_vars

SpecHub == InitAux /\ [][NextHub]_vars

TypeOK ==
    /\ job.status \in {"absent", "queued", "processing", "completed", "failed"}
    /\ job.progress \in {0, 10, 20, 30, 40, 85, 100}
    /\ stage \in 0..6

\* ----------------------------------------------------------------- claims
IsTerminalEvent(e) == e.event_type \in {"error", "completed"}

ErrorCount ==
    Cardinality({i \in 1..Len(events) : events[i].event_type = "error"})

TerminalPublished == \E i \in 1..Len(events) : IsTerminalEvent(events[i])

NoCancel == \A c \in CancelIds : cancel[c].pc = "idle"

\* The worker has popped the job and left its finally block.
WorkerFinished == job.status # "absent" /\ queue = <<>> /\ wpc = "idle"

\* C1: once the stored status is completed or failed, no step of any
\* component changes it.
C1_TerminalSticky ==
    [][job.status \in {"completed", "failed"} => job'.status = job.status]_vars

\* C2: after cancel_job has run on a queued job whose list entry is still
\* waiting, execute_pipeline is never entered for it, its status stays
\* failed and no progress event is published.
C2_QueuedCancelSkipsPipeline ==
    cancelled_queued =>
        /\ stage = 0
        /\ job.status = "failed"
        /\ \A i \in 1..Len(events) : events[i].event_type # "progress"

\* C3: in development mode a run that is never cancelled, whose collaborators
\* all succeed and whose total cost is within 50 ends with status completed,
\* progress 100 and a completed event as its last event.
C3_DevHappyPath ==
    ( /\ environment = "development"
      /\ NoCancel
      /\ all_succeeded
      /\ job.total_cost <= 50
      /\ step = "done" )
    => /\ job.status = "completed"
       /\ job.progress = 100
       /\ events # <<>>
       /\ events[Len(events)].event_type = "completed"

\* The marker was first set after S2's progress event and before S3's
\* cancellation check.
MarkerSetBeforeS3 ==
    marker_set_at \in {[stage |-> 2, step |-> "completed"],
                       [stage |-> 3, step |-> "started"],
                       [stage |-> 3, step |-> "check"]}

C5_TerminalEventLast ==
    [][TerminalPublished => events' = events]_vars

\* C6: status=failed is written to the job row at most once.
C6_FailedWrittenOnce ==
    Len(failed_writes) <= 1

\* C7: every write of status=failed is followed by an error event, with no
\* other event published in between.
C7_FailedThenErrorEvent ==
    [][ /\ (unannounced /\ events' # events)
            => events'[Len(events')].event_type = "error"
        /\ ~(unannounced' /\ WorkerFinished') ]_vars

\* C8: a completed job has progress 100, a video_url and no error_message.
C8_CompletedRow ==
    job.status = "completed" =>
        /\ job.progress = 100
        /\ job.video_url # ""
        /\ job.error_message = ""

\* C9: progress is 100 exactly when the status is completed.
C9_ProgressIffCompleted ==
    (job.progress = 100) <=> (job.status = "completed")

\* C10: the stored total_cost never exceeds the environment's budget limit.
C10_TotalWithinBudget ==
    job.total_cost <= get_budget_limit(environment)

\* C12: within one run the progress values written to the job row are taken
\* from 0, 10, 20, 30, 40, 85, 100 and every write that changes the value
\* moves it to the next value of that list.
ProgressValues == <<0, 10, 20, 30, 40, 85, 100>>

ProgressIndex(p) == CHOOSE i \in 1..Len(ProgressValues) : ProgressValues[i] = p

IsProgressValue(p) == \E i \in 1..Len(ProgressValues) : ProgressValues[i] = p

HandlerWroteFailed ==
    \E i \in 1..Len(failed_writes) : failed_writes[i] = "handle_pipeline_error"

C13_RetryablePropagates ==
    /\ err.raised = "RetryableError"
         => ~HandlerWroteFailed /\ err.clause \in {"none", "reraised"}
    /\ err.raised \in {"BudgetExceededError", "PipelineError"}
         /\ err.clause # "none"
         => HandlerWroteFailed /\ err.clause = "absorbed"

\* C14: before stages 3 and 5 a total plus the stage's estimate above the
\* limit keeps the collaborator from being invoked, fails the job and
\* publishes an error event with code BUDGET_EXCEEDED and retryable false.
BudgetErrorPublished ==
    \E i \in 1..Len(events) :
        /\ events[i].event_type = "error"
        /\ events[i].code = "BUDGET_EXCEEDED"
        /\ events[i].retryable = FALSE

StageFailureMessages == {"stage failed", "Pipeline execution failed"}

AdmittedInWindow(t) ==
    Cardinality({j \in 1..Len(admissions) :
                    t <= admissions[j] /\ admissions[j] < t + Window})

C11_FivePerWindow ==
    broker_failures = 0
        => \A i \in 1..Len(admissions) :
               AdmittedInWindow(admissions[i]) <= Capacity

\* C16: after every add_connection, remove_connection and
\* cleanup_stale_connections step no job has more than 10 subscriptions, and
\* an add_connection on a job that has 10 raises and leaves the registry as
\* it was.
C16_AtMostTenPerJob ==
    [][/\ \A j \in DOMAIN connections' :
              Len(connections'[j]) <= MAX_CONNECTIONS_PER_JOB
       /\ queues_created' # queues_created
            => IF Len(get_connections(sse_result'.job_id))
                     = MAX_CONNECTIONS_PER_JOB
               THEN /\ sse_result'.outcome = "ValueError"
                    /\ UNCHANGED <<connections, connection_timestamps>>
               ELSE sse_result'.outcome = "added"
      ]_vars

C16_Witness ==
    /\ sse_result.outcome = "ValueError"
    /\ Len(get_connections(sse_result.job_id)) = MAX_CONNECTIONS_PER_JOB
    /\ sse_clock > 0

\* C17: payloads are popped in the order they were enqueued, and each popped
\* payload has the job_id, user_id, audio_url and user_prompt of the enqueue
\* it comes from.
PayloadFields(d) ==
    <<d["job_id"], d["user_id"], d["audio_url"], d["user_prompt"]>>

C17_QueueIsFifo ==
    /\ Len(popped) <= Len(enqueued)
    /\ \A i \in 1..Len(popped) :
           PayloadFields(popped[i]) = PayloadFields(enqueued[i])

C17_Witness ==
    /\ Len(popped) = 2
    /\ Len(queue_list) = 1
    /\ PayloadFields(popped[2]) = PayloadFields(enqueued[2])
    /\ popped[1].created_at = 0 /\ popped[2].created_at = 1
    /\ popped[1].user_id # popped[2].user_id

\* C18: once the concurrent track_cost calls made for a job in one process
\* have all completed, the stored total_cost is the sum of the costs of the
\* job's job_costs rows.
RECURSIVE SumCosts(_)
SumCosts(entries) ==
    IF entries = <<>> THEN 0 ELSE entries[1].cost + SumCosts(Tail(entries))

AllTrackersReturned ==
    \A t \in TrackTasks : tracker[t].pc \in {"idle", "done"}

C18_TotalIsSumOfCosts ==
    AllTrackersReturned => stored_total = SumCosts(job_costs)

C18_Witness ==
    /\ \A t \in TrackTasks : tracker[t].pc = "done"
    /\ contended
    /\ Len(job_costs) = MaxTrackers
    /\ stored_total = SumCosts(job_costs)
    /\ stored_total > 0

\* C19: get_job_status returns job data, from the store or from the cache,
\* only to the job's owner; only owners reach the cache, and a caller who is
\* not the owner is refused whether or not the job has a cache entry.
OwnerOf(j) == rows[j].user_id

C19_OnlyOwnerIsServed ==
    /\ \A x \in served :
           /\ x.job_id \in DOMAIN rows
           /\ OwnerOf(x.job_id) = x.user_id
           /\ x.body["id"] = x.job_id
           /\ x.body["user_id"] = x.user_id
    /\ \A x \in cache_touched :
           x.job_id \in DOMAIN rows /\ OwnerOf(x.job_id) = x.user_id
    /\ \A r \in StatusRequests :
           /\ request[r].pc = "done"
           /\ request[r].job_id \in DOMAIN rows
           /\ OwnerOf(request[r].job_id) # request[r].user_id
           => request[r].response.code = 403 /\ request[r].response.body = <<>>

C19_Witness ==
    \E r \in StatusRequests :
        /\ request[r].pc = "done"
        /\ request[r].response.code = 403
        /\ prefix_key(cache_key(request[r].job_id)) \in DOMAIN cache
        /\ \E x \in served : x.job_id = request[r].job_id

\* C20: list_jobs returns the entries at positions [offset, offset+limit) of
\* the caller's jobs (of the given status when filtered) in descending
\* created_at order, whatever the order in which the store returns rows, and
\* total is the number of matching jobs.
ExpectedPage(r) ==
    slice(sort_created_at_desc(matching(jobs_table, r.user_id,
                                        r.status_filter)),
          r.offset, r.offset + r.limit)

C20_ListIsSortedPage ==
    [][list_calls' # list_calls
         => /\ list_result'.jobs = ExpectedPage(list_result')
            /\ list_result'.total
                  = Len(matching(jobs_table, list_result'.user_id,
                                 list_result'.status_filter))
      ]_vars

C22_SecondCancelRejected ==
    [][\A c \in CancelIds :
          /\ cancel[c].pc = "idle" /\ cancel'[c].pc # "idle"
               /\ job.status = "failed"
               => /\ cancel'[c].pc = "rejected"
                  /\ UNCHANGED <<job, queue, payload_key, cancel_marker>>
          /\ cancel[c].pc = "rejected" => cancel'[c].pc = "rejected"
      ]_vars

C22_Witness ==
    /\ cancel[1].pc = "done"
    /\ cancel[2].pc = "rejected"
    /\ cancel[2].job_status = "failed"
    /\ failed_writes = <<"cancel_job">>
    /\ job.status = "failed"

\* C23: when a valid token is validated twice in a row, with the cache
\* reachable in both calls and the entry left by the first not expired at
\* the second, the second call does not run jwt.decode and returns the
\* first call's user_id, so the pair runs jwt.decode at most once (once
\* when the first call missed the cache).
C23_SecondValidationCached ==
    \A i \in 1..(Len(validations) - 1) :
        LET a == validations[i]
            b == validations[i + 1]
        IN  /\ a.token = b.token
            /\ a.user_id # "HTTP_401"
            /\ ~a.cache_failed /\ ~b.cache_failed
            /\ b.at < a.expires_at
            => ~b.decoded /\ b.user_id = a.user_id

C23_Witness ==
    /\ Len(validations) >= 2
    /\ validations[1].token = validations[2].token
    /\ validations[1].decoded /\ validations[1].user_id = "u1"
    /\ ~validations[1].cache_failed /\ ~validations[2].cache_failed
    /\ validations[2].at = 299
    /\ ~validations[2].decoded /\ validations[2].user_id = "u1"

\* C24: a call in which a broker operation fails ends admitted under
\* fail-open and rejected with retry_after = 60 under fail-closed; a call in
\* which no operation fails and which finds five or more entries ends with
\* the RATE_LIMIT_EXCEEDED rejection under either policy.
EntriesInWindow ==
    zremrangebyscore(rate_limit_set, 0, clock - Window)

C24_FailurePolicy ==
    [][rl_calls' # rl_calls
         => /\ rl_failed'
                 => rl_result' = IF rate_limit_fail_closed
                                 THEN RateLimitError(60,
                                          "RATE_LIMIT_SERVICE_UNAVAILABLE")
                                 ELSE Admitted
            /\ ~rl_failed' /\ zcard(EntriesInWindow) >= Capacity
                 => /\ rl_result'.outcome = "rejected"
                    /\ rl_result'.code = "RATE_LIMIT_EXCEEDED"
                    /\ rl_result'.retry_after # 60
      ]_vars

C24_Witness ==
    /\ rl_failed
    /\ rate_limit_fail_closed
    /\ zcard(rate_limit_set) >= Capacity
    /\ rl_result = RateLimitError(60, "RATE_LIMIT_SERVICE_UNAVAILABLE")

\* C25: a quota rejection carries retry_after = 3600 - (now - oldest score
\* left after the trim), and that value lies between 1 and 3600.
OldestScore ==
    CHOOSE t \in {e.score : e \in EntriesInWindow} :
        \A e \in EntriesInWindow : t <= e.score

C25_RetryAfterInRange ==
    [][rl_calls' # rl_calls /\ rl_result'.code = "RATE_LIMIT_EXCEEDED"
         => /\ rl_result'.retry_after = 3600 - (clock - OldestScore)
            /\ 1 <= rl_result'.retry_after
            /\ rl_result'.retry_after <= 3600
      ]_vars

C25_Witness ==
    /\ rl_result.code = "RATE_LIMIT_EXCEEDED"
    /\ rl_result.retry_after = 1
    /\ zcard(rate_limit_set) = Capacity

\* C26: the first message a generator writes is the progress event made
\* from the row as get_initial_state read it (the defaults when the read
\* returned no row or raised); every queued or forwarded event comes after
\* it, and a registered generator past its first yield has written it.
ExpectedInitialState(read) ==
    IF read.outcome # "row"
    THEN <<<<"progress", 0>>, <<"stage", "None">>, <<"status", "queued">>,
           <<"total_cost", 0>>>>
    ELSE <<<<"progress", read.row.progress>>,
           <<"stage", read.row.current_stage>>,
           <<"status", read.row.status>>,
           <<"total_cost", read.row.total_cost>>>>

C26_InitialProgressFirst ==
    \A s \in StreamIds :
        /\ stream[s].pc \in {"subscribe", "loop", "closed"}
              => Len(stream[s].written) >= 1
        /\ Len(stream[s].written) >= 1
              => /\ stream[s].written[1].via = "get_initial_state"
                 /\ stream[s].written[1].event = "progress"
                 /\ stream[s].written[1].data
                        = ExpectedInitialState(stream[s].read)
        /\ \A i \in 2..Len(stream[s].written) :
               stream[s].written[i].via # "get_initial_state"

C26_Witness ==
    \E s \in StreamIds :
        /\ Len(stream[s].written) >= 2
        /\ stream[s].written[1].via = "get_initial_state"
        /\ stream[s].written[1].data[1] = <<"progress", 10>>
        /\ stream[s].written[2].via = "pubsub_listener"
        /\ stream[s].written[2].data[1] = <<"progress", 10>>

\* C27: when a status write and its invalidation finish for a job while no
\* status read is in progress, the cache holds no entry under the key
\* get_job_status uses for that job.
NoReadRunning ==
    \A r \in StatusRequests : request[r].pc \in {"idle", "done"}

C27_WriteInvalidatesCache ==
    [][\A j \in DOMAIN rows :
          rows'[j] # rows[j] /\ NoReadRunning
              => prefix_key(cache_key(j)) \notin DOMAIN cache'
      ]_vars

\* C28: a stage's stage_update started event is published only after the
\* cancellation marker was checked: it is never published while the marker
\* is present.
C28_CancelCheckedBeforeStarted ==
    [][(/\ Len(events') = Len(events) + 1
        /\ events'[Len(events')] = StageUpdate(stage, "started"))
          => ~cancel_marker
      ]_vars

\* C29: when enforce_budget fails after stage 3 or 5, the stage's progress
\* value has not been written to the row and no stage_update completed event
\* of the stage has been published.
EnforceFailedAt(s) ==
    stage = s /\ err.message = "Budget limit exceeded"

C29_EnforceBeforeProgress ==
    \A s \in BudgetStages :
        EnforceFailedAt(s)
            => /\ job.progress # StageProgress(s)
               /\ \A i \in 1..Len(events) :
                      events[i] # StageUpdate(s, "completed")

\* C30: from the pop until the worker's finally clause, a job that is not
\* yet completed or failed is in the processing set.
C30_PoppedJobInProcessingSet ==
    /\ wpc \notin {"idle", "delete"}
    /\ job.status \in {"queued", "processing"}
    => JobId \in processing

\* C39: a check_rate_limit call that ends in a rejection adds no entry to
\* the user's sorted set and leaves the expiry of the key as it was.
C39_RejectionLeavesSet ==
    [][(rl_calls' # rl_calls /\ rl_result'.outcome = "rejected")
          => /\ rate_limit_set' \subseteq rate_limit_set
             /\ rate_limit_ttl' \in {rate_limit_ttl, 0}
      ]_vars

\* C40: the connections registry and the connection_timestamps registry
\* hold the same (job, queue) pairs, and neither has an entry for a job
\* without queues.
ConnectionPairs ==
    UNION {{<<j, connections[j][i]>> : i \in 1..Len(connections[j])} :
              j \in DOMAIN connections}

TimestampPairs ==
    UNION {{<<j, q>> : q \in DOMAIN connection_timestamps[j]} :
              j \in DOMAIN connection_timestamps}

C40_RegistriesAgree ==
    /\ ConnectionPairs = TimestampPairs
    /\ \A j \in DOMAIN connections : Len(connections[j]) > 0
    /\ \A j \in DOMAIN connection_timestamps :
           DOMAIN connection_timestamps[j] # {}

C40_Witness ==
    /\ sse_clock > HeartbeatTimeout
    /\ queues_created >= 3
    /\ ConnectionPairs = {<<JobId, queues_created>>}
    /\ TimestampPairs = {<<JobId, queues_created>>}
    /\ connection_timestamps[JobId][queues_created] = sse_clock


\* C31: whenever the worker pops a payload, the processing set is empty and
\* the payload key of every job popped before has been deleted by the worker,
\* however that job's processing ended.
C31_CleanupBeforeNextPop ==
    [][(wk.pc = "brpop" /\ wk'.pc = "sadd")
          => /\ w_processing = {}
             /\ w_popped \subseteq w_deleted
      ]_vars

\* A second pop after a job whose failure was never written to its row.
C31_Witness ==
    /\ wk.pc = "sadd"
    /\ w_popped = {1, 2}
    /\ w_deleted = {1}
    /\ w_rows[1].status = "processing"
    /\ w_processing = {}

\* C32: once process_job has ended for a well-formed payload, a marker that
\* was found means the row is failed with "Job cancelled by user" and
\* execute_pipeline was not called; a marker that was absent means one call of
\* execute_pipeline with the payload's job_id, audio_url and user_prompt.
ProcessJobEnded ==
    /\ wk.pc \in {"srem", "delete", "sleep"}
    /\ well_formed(wk.job_data)

C32_MarkerDecidesExecution ==
    ProcessJobEnded =>
        IF wk.cached # <<>>
          THEN /\ w_rows[wk.job_data.job_id] =
                      [status |-> "failed", error_message |-> CancelMessage]
               /\ wk.calls = <<>>
          ELSE wk.calls = << <<wk.job_data.job_id, wk.job_data.audio_url,
                               wk.job_data.user_prompt>> >>

C32_Witness ==
    /\ ProcessJobEnded
    /\ wk.cached # <<>>
    /\ wk.job_data.job_id = 2
    /\ w_rows[2].status = "failed"
    /\ w_rows[1].status = "completed"

\* C35: at most three executions of process_job are in progress in a worker
\* process.
InProgress == {t \in SemTasks : sem_tasks[t].pc = "process_job"}

C35_AtMostThreeInProgress ==
    Cardinality(InProgress) <= 3

\* Three executions in progress and a fourth call waiting for the semaphore.
C35_Witness ==
    /\ Cardinality(InProgress) = 3
    /\ \E t \in SemTasks : sem_tasks[t].pc = "acquire"
    /\ sem_value = 0

\* C36: a job row left in status queued by a finished upload_audio has an
\* entry on the queue list, or had one that a worker popped.
QueueEntryIds == {json_loads(w_list[i]).job_id : i \in 1..Len(w_list)}

C36_QueuedRowHasQueueEntry ==
    \A j \in WorkerJobs :
        (w_rows[j].status = "queued" /\ w_response[j] # 0)
            => (j \in QueueEntryIds \/ j \in w_popped)

\* C37: every job the worker pops eventually has status completed or failed.
C37_PoppedJobReachesTerminal ==
    \A j \in WorkerJobs :
        (j \in w_popped) ~> (w_rows[j].status \in {"completed", "failed"})


\* C33: a generator whose event loop is running has its queue in the
\* registry, where it counts against the cap.
C33_EvictedStreamEnded ==
    \A s \in StreamIds :
        stream[s].pc = "loop" => InList(stream_registry, s)

\* C38: once everything published has reached a subscribed generator and its
\* queue is drained, a progress value written to the row after the
\* generator's initial read has been written to its client as a later event.
EventProgress(m) == json_loads(m.data).progress

C38_NoEventMissed ==
    \A s \in StreamIds :
        (/\ stream[s].pc = "loop"
         /\ stream[s].read.outcome = "row"
         /\ stream_row.progress > stream[s].read.row.progress
         /\ updater.pc = "idle"
         /\ stream[s].inbox = <<>>
         /\ stream[s].queue = <<>>)
            => \E i \in 2..Len(stream[s].written) :
                   /\ stream[s].written[i].event = "progress"
                   /\ EventProgress(stream[s].written[i]) = stream_row.progress


====
